---- MODULE Spec2Model ----
(***************************************************************************)
(* Model of hid-ft260.c: the FT260 USB HID to I2C / UART bridge driver.    *)
(* The I2C part models ft260_i2c_xfer / ft260_smbus_xfer with their chunk  *)
(* loops, the status poll, the controller reset and the inbound report     *)
(* callback ft260_raw_event. Every transport call is one step whose        *)
(* outcome is chosen by the environment.                                   *)
(***************************************************************************)
EXTENDS Integers, Naturals, Sequences, FiniteSets, TLC

\* ---------------------------------------------------------------- bounds
MaxLen == 241          \* longest I2C read a caller asks for
MaxWrLen == 121        \* longest I2C write a caller asks for
MaxCombWr == 3         \* longest write phase tried in a combined transfer
MaxStray == 1          \* unsolicited inbound frames in one behaviour
NumCallers == 2        \* threads calling into the adapter
MaxCalls == 2          \* transfers started in one behaviour
MaxUartLen == 257      \* longest UART write a caller asks for
MaxUartWrites == 2     \* UART writes in one behaviour
MaxOpens == 2          \* times the UART line is opened in one behaviour
MaxKeepAlive == 2      \* keep-alive reads counted

\* ------------------------------------------------------- program constants
FT260_RD_DATA_MAX == 180
FT260_WR_DATA_MAX == 60
FT260_I2C_READ_REQ == 194
FT260_I2C_REPORT_MIN == 208
FT260_I2C_REPORT_MAX == 222
FT260_UART_REPORT_MIN == 240
FT260_UART_REPORT_MAX == 254
FT260_I2C_STATUS_CTRL_BUSY == 1
FT260_I2C_STATUS_ERROR == 2
FT260_I2C_STATUS_BUS_BUSY == 64
FT260_FLAG_NONE == 0
FT260_FLAG_START == 2
FT260_FLAG_START_REPEATED == 3
FT260_FLAG_STOP == 4
FT260_FLAG_START_STOP == 6
FT260_FLAG_START_STOP_REPEATED == 7
FirstRdDataMax == 60
PollTries == 100
WrHeaderLen == 4
CombWrMax == 2
FIFO_SIZE == 256
FT260_SYSTEM_SETTINGS == 161
FT260_SET_UART_CONFIG == 65
FT260_CFG_FLOW_CTRL_OFF == 0
FT260_CFG_FLOW_CTRL_RTS_CTS == 1
FT260_CFG_FLOW_CTRL_NONE == 4
FT260_CFG_DATA_BITS_7 == 7
FT260_CFG_DATA_BITS_8 == 8
FT260_CFG_PAR_NO == 0
FT260_CFG_PAR_ODD == 1
FT260_CFG_PAR_EVEN == 2
FT260_CFG_STOP_ONE_BIT == 0
FT260_CFG_STOP_TWO_BIT == 2
FT260_CFG_BREAKING_NO == 0
FT260_CFG_BAUD_MIN == 1200
FT260_CFG_BAUD_MAX == 12000000
DefaultBaud == 9600
UartHeaderLen == 2

\* TTY_WAKEUP_WATERMARK
TTY_WAKEUP_WATERMARK == FIFO_SIZE \div 2

\* errno values returned by the driver
EIO == 0 - 5
EAGAIN == 0 - 11
EINVAL == 0 - 22
EBADR == 0 - 53
EOPNOTSUPP == 0 - 95
ETIMEDOUT == 0 - 110
ENODEV == 0 - 19       \* what a failing transport call returns
RawErr == 0 - 1

NULL == 0 - 1          \* dev->read_buf == NULL

Callers == 1..NumCallers

\* ------------------------------------------------------------ bit helpers
\* bit i of the byte v
Bit(v, i) == (v \div (2 ^ i)) % 2

\* a & b and a | b on bytes
BitAnd(a, b) ==
  Bit(a, 0) * Bit(b, 0) + 2 * Bit(a, 1) * Bit(b, 1) + 4 * Bit(a, 2) * Bit(b, 2)
  + 8 * Bit(a, 3) * Bit(b, 3) + 16 * Bit(a, 4) * Bit(b, 4)
  + 32 * Bit(a, 5) * Bit(b, 5) + 64 * Bit(a, 6) * Bit(b, 6)
  + 128 * Bit(a, 7) * Bit(b, 7)

BitOr(a, b) == a + b - BitAnd(a, b)

Min(a, b) == IF a <= b THEN a ELSE b

\* FT260_I2C_DATA_REPORT_ID(len)
FT260_I2C_DATA_REPORT_ID(len) == FT260_I2C_REPORT_MIN + ((len - 1) \div 4)

\* byte i (0-based) of a caller's write buffer
DataByte(i) == (i * 37 + 11) % 256

\* data[idx .. idx+n-1] of the caller's write buffer
DataSlice(idx, n) == [j \in 1..n |-> DataByte(idx + j - 1)]

VARIABLES
  workload,    \* the class of requests the callers issue in this behaviour
  pc,          \* pc[c]: position of caller c inside the driver
  fr,          \* fr[c]: arguments and locals of caller c's call
  lock,        \* dev->lock: 0 when free, else the owning caller
  rep_flag,    \* rep->flag, the flag field of the report in dev->write_buf
  read_buf,    \* dev->read_buf: NULL or offset into the caller's buffer
  read_idx,    \* dev->read_idx
  read_len,    \* dev->read_len
  clock,       \* dev->clock
  wait,        \* dev->wait: the completion's done count
  buf,         \* the copies made into the caller's destination buffer, in order
  buf_len,     \* size of that buffer
  oob,         \* a copy ran past the end of the caller's buffer
  log,         \* reports handed to the transport by the current call
  featget,     \* calls of ft260_xfer_status made by the current call
  fin,         \* the call that returned last
  ev,          \* what the last ft260_raw_event did
  status,      \* what the last status poll was answered and with which mask
  dev_pending, \* bytes the device still owes for the last read request
  dev_chunk,   \* which read request of the call they belong to
  strays,      \* unsolicited frames delivered so far
  calls,       \* transfers started so far
  dclock,      \* the bus clock the device reports
  host_be,     \* the driver was built for a big-endian host
  port_active, \* the UART line is open: activated and not yet shut down
  port_tty,    \* port->port.tty: NULL or the tty attached to the port
  rm,          \* how far ft260_remove has got
  xmit_fifo,   \* dev->xmit_fifo
  icount_tx,   \* dev->icount.tx
  reschedule_work, \* dev->reschedule_work, the keep-alive flag
  wakeup_timer,    \* dev->wakeup_timer is pending
  wakeup_work,     \* dev->wakeup_work is queued
  upc,         \* position of the thread inside ft260_uart_write
  ufr,         \* its arguments and locals
  ulog,        \* UART output reports handed to the transport by that write
  wakeups,     \* tty_wakeup calls made by that write
  ufin,        \* the UART write that returned last
  cpc,         \* position of the thread inside ft260_uart_set_termios
  cfr,         \* the termios it was called with
  cfg,         \* what the last ft260_uart_change_speed sent and returned
  uev,         \* the UART operation that took the last step
  ka_reads,    \* chip-version reads made by the keep-alive job
  opens,       \* times the line was opened so far
  uwrites,     \* UART writes started so far
  accepted,    \* bytes the UART writes have put into the queue so far
  acc,         \* the queue and counter accesses of the last UART step
  ft260_uart_device_list,  \* the list of UART ports, head first
  port_ev      \* the last operation on that list and what it returned

uartvars == <<host_be, port_active, port_tty, rm, xmit_fifo, icount_tx,
              reschedule_work, wakeup_timer, wakeup_work, upc, ufr, ulog, wakeups,
              ufin, cpc, cfr, cfg, uev, ka_reads, opens, uwrites, accepted, acc,
              ft260_uart_device_list, port_ev>>

vars == <<workload, pc, fr, lock, rep_flag, read_buf, read_idx, read_len, clock, wait,
          buf, buf_len, oob, log, featget, fin, ev, status, dev_pending,
          dev_chunk, strays, calls, dclock, uartvars>>

NoFrame == [op |-> "none"]
NoFin == [c |-> 0]
NoEv == [cls |-> "none"]
NoStatus == [by |-> 0]
NoUfr == [id |-> 0]
NoUfin == [id |-> 0]
NoCfr == [baud |-> 0 - 1]
NoCfg == [by |-> "none"]

DevClocks == {100}
Workloads == {"write", "read", "combined", "smbus", "uart", "uart_cfg", "ports"}

\* the workloads of a context in UART mode (dev->ft260_is_serial): "uart"
\* writes to the line, "uart_cfg" changes its settings
UartModes == {"uart", "uart_cfg"}

\* variant of ProbeRescheduleWork: the probe turns the keep-alive on
ProbeRescheduleWorkOn == TRUE

\* ft260_uart_probe 1579: dev->reschedule_work = false
ProbeRescheduleWork == FALSE

\* State of the UART side after ft260_probe / ft260_uart_probe: the queue
\* allocated and empty, the work and the timer set up but not started, the
\* line closed.
UartInit ==
  /\ host_be \in (IF workload = "uart_cfg" THEN BOOLEAN ELSE {FALSE})
  /\ port_active = FALSE
  /\ port_tty = NULL
  /\ rm = "attached"
  /\ xmit_fifo = <<>>
  /\ icount_tx = 0
  /\ reschedule_work = ProbeRescheduleWork
  /\ wakeup_timer = FALSE
  /\ wakeup_work = FALSE
  /\ upc = "idle"
  /\ ufr = NoUfr
  /\ ulog = <<>>
  /\ wakeups = 0
  /\ ufin = NoUfin
  /\ cpc = "idle"
  /\ cfr = NoCfr
  /\ cfg = NoCfg
  /\ uev = "none"
  /\ ka_reads = 0
  /\ opens = 0
  /\ uwrites = 0
  /\ accepted = 0
  /\ acc = <<>>
  /\ ft260_uart_device_list = <<>>
  /\ port_ev = [op |-> "none"]

\* State after ft260_probe / ft260_i2c_probe: kzalloc'ed context, then one
\* status read that sets the clock when it succeeds.
Init ==
  /\ workload \in Workloads
  /\ pc = [c \in Callers |-> "idle"]
  /\ fr = [c \in Callers |-> NoFrame]
  /\ lock = 0
  /\ rep_flag = 0
  /\ read_buf = NULL
  /\ read_idx = 0
  /\ read_len = 0
  /\ dclock \in DevClocks
  /\ clock \in (IF workload \in UartModes \/ workload = "ports" THEN {0} ELSE {0, dclock})
  /\ wait = 0
  /\ buf = <<>>
  /\ buf_len = 0
  /\ oob = FALSE
  /\ log = <<>>
  /\ featget = 0
  /\ fin = NoFin
  /\ ev = NoEv
  /\ status = NoStatus
  /\ dev_pending = 0
  /\ dev_chunk = 0
  /\ strays = 0
  /\ calls = 0
  /\ UartInit

\* ------------------------------------------------------------- requests
SmbusSizes == {"BYTE", "BYTE_DATA", "WORD_DATA", "BLOCK_DATA",
               "I2C_BLOCK_DATA", "PROC_CALL"}
SmbusBlockLens == {0, 2}
SmbusBufLen == 34

\* 7-bit addresses and SMBus command bytes the callers use
Addrs == {80}
Cmds == {17}

\* message lengths worth trying: around 0 and around the multiples of 60
LenClass(n) == n <= 1 \/ n % 60 \in {0, 1}

\* UART write sizes worth trying: around 0, around one report, above the
\* watermark, above the queue's capacity
UartCounts == {n \in 0..MaxUartLen : n <= 1 \/ n \in {60, 61, 129} \/ n > FIFO_SIZE}
WrLens == {n \in 0..MaxWrLen : LenClass(n) \/ n = 20}
RdLens == {n \in 0..MaxLen : n <= 1 \/ n \in {60, 61, 130, 240} \/ n > 240}
CombRdLens == {1, 61}

Requests(w) ==
  CASE w \in UartModes \/ w = "ports" -> {}
    [] w = "read" ->
         [op : {"read"}, wlen : {0}, rlen : RdLens, size : {"-"}, rw : {"-"},
          block0 : {0}, addr : Addrs, cmd : {0}]
    [] w = "write" ->
         [op : {"write"}, wlen : WrLens, rlen : {0}, size : {"-"}, rw : {"-"},
          block0 : {0}, addr : Addrs, cmd : {0}]
    [] w = "combined" ->
         [op : {"combined"}, wlen : 0..MaxCombWr, rlen : CombRdLens, size : {"-"},
          rw : {"-"}, block0 : {0}, addr : Addrs, cmd : {0}]
    [] OTHER ->
         {rq \in [op : {"smbus"}, wlen : {0}, rlen : {0}, size : SmbusSizes,
                  rw : {"R", "W"}, block0 : SmbusBlockLens, addr : Addrs, cmd : Cmds] :
            rq.block0 = 0 \/ rq.size \in {"BLOCK_DATA", "I2C_BLOCK_DATA"}}

\* size of the caller's destination buffer
BufLen(rq) == IF rq.op = "smbus" THEN SmbusBufLen ELSE rq.rlen

NewFrame(rq) ==
  [op |-> rq.op, wlen |-> rq.wlen, rlen |-> rq.rlen, size |-> rq.size,
   rw |-> rq.rw, block0 |-> rq.block0, addr |-> rq.addr, cmd |-> rq.cmd,
   fn |-> "-", len |-> 0, argflag |-> 0, flag |-> 0, idx |-> 0, wr_len |-> 0,
   rd_len |-> 0, rd_data_max |-> 0, dptr |-> 0, try |-> 0, bus_busy |-> 0,
   ret |-> 0, usec |-> 0, sleep |-> 0, chunk |-> 0, data_len |-> 0, doff |-> 0]

\* variant of ReadEntry: the repeated start asked for is dropped
ReadEntryPlainStart(f, len, flag, dptr) ==
  [pc |-> "rd_top", repflag |-> NULL,
   f |-> [f EXCEPT !.fn = "read", !.len = len, !.flag = FT260_FLAG_START,
            !.rd_data_max = FirstRdDataMax, !.dptr = dptr, !.bus_busy = 0,
            !.ret = 0, !.chunk = 0, !.rd_len = 0]]

\* ------------------------------------------------- function entry / return
\* ft260_i2c_read, lines 579-592: locals and the start flag
ReadEntry(f, len, flag, dptr) ==
  [pc |-> "rd_top", repflag |-> NULL,
   f |-> [f EXCEPT !.fn = "read", !.len = len,
            !.flag = IF BitAnd(flag, FT260_FLAG_START_REPEATED) = FT260_FLAG_START_REPEATED
                     THEN FT260_FLAG_START_REPEATED ELSE FT260_FLAG_START,
            !.rd_data_max = FirstRdDataMax, !.dptr = dptr, !.bus_busy = 0,
            !.ret = 0, !.chunk = 0, !.rd_len = 0]]

GoExit(f, ret) == [pc |-> "exit", repflag |-> NULL, f |-> [f EXCEPT !.ret = ret]]

SmbusDataLen(f) ==
  CASE f.size = "BYTE_DATA" -> 1
    [] f.size = "WORD_DATA" -> 2
    [] f.size = "BLOCK_DATA" -> f.block0 + 1
    [] OTHER -> f.block0

SmbusDataPtr(f) == IF f.size = "I2C_BLOCK_DATA" THEN 1 ELSE 0

\* What the caller of sub-function fn does once fn returned ret:
\* ft260_i2c_xfer (718-728), ft260_i2c_write_read (684-692),
\* ft260_smbus_xfer (767-768 and the break statements).
CallerAfter(f, fn, ret) ==
  CASE f.op \in {"read", "write"} -> GoExit(f, IF ret < 0 THEN ret ELSE 1)
    [] f.op = "combined" /\ fn = "write" ->
         IF ret < 0 THEN GoExit(f, ret)
         ELSE ReadEntry(f, f.rlen, FT260_FLAG_START_STOP_REPEATED, 0)
    [] f.op = "combined" /\ fn = "read" -> GoExit(f, IF ret < 0 THEN ret ELSE 2)
    [] f.op = "smbus" /\ fn = "smbus_write" ->
         IF f.rw = "R" /\ f.size # "BYTE" /\ ret = 0
         THEN ReadEntry(f, SmbusDataLen(f), FT260_FLAG_START_STOP_REPEATED, SmbusDataPtr(f))
         ELSE GoExit(f, ret)
    [] OTHER -> GoExit(f, ret)

\* ft260_i2c_write, lines 500-511
WriteEntry(f, len, flag) ==
  IF len < 1 THEN CallerAfter(f, "write", EINVAL)
  ELSE [pc |-> "wr_chunk", repflag |-> FT260_FLAG_START,
        f |-> [f EXCEPT !.fn = "write", !.len = len, !.argflag = flag, !.idx = 0]]

\* ft260_smbus_write, lines 548-558
SmbusWriteEntry(f, data_len, doff, flag) ==
  IF data_len >= FT260_WR_DATA_MAX THEN CallerAfter(f, "smbus_write", EINVAL)
  ELSE [pc |-> "sw_send", repflag |-> NULL,
        f |-> [f EXCEPT !.fn = "smbus_write", !.data_len = data_len,
                 !.doff = doff, !.argflag = flag]]

\* variant of WriteReadEntry: the length of the write message is not looked at
WriteReadEntryNoCheck(f) == WriteEntry(f, f.wlen, FT260_FLAG_START)

\* ft260_i2c_write_read, lines 658-683
WriteReadEntry(f) ==
  IF f.wlen > CombWrMax THEN GoExit(f, EOPNOTSUPP)
  ELSE WriteEntry(f, f.wlen, FT260_FLAG_START)

\* variant of SmbusDispatch: the command write of a read carries the stop
\* condition too
SmbusDispatchCmdStop(f) ==
  CASE f.size = "BYTE" ->
         IF f.rw = "R" THEN ReadEntry(f, 1, FT260_FLAG_START_STOP, 0)
         ELSE SmbusWriteEntry(f, 0, 0, FT260_FLAG_START_STOP)
    [] f.size \in {"BYTE_DATA", "WORD_DATA", "BLOCK_DATA", "I2C_BLOCK_DATA"} ->
         IF f.rw = "R" THEN SmbusWriteEntry(f, 0, 0, FT260_FLAG_START_STOP)
         ELSE SmbusWriteEntry(f, SmbusDataLen(f), SmbusDataPtr(f), FT260_FLAG_START_STOP)
    [] OTHER -> GoExit(f, EOPNOTSUPP)

\* the switch of ft260_smbus_xfer, lines 754-827
SmbusDispatch(f) ==
  CASE f.size = "BYTE" ->
         IF f.rw = "R" THEN ReadEntry(f, 1, FT260_FLAG_START_STOP, 0)
         ELSE SmbusWriteEntry(f, 0, 0, FT260_FLAG_START_STOP)
    [] f.size \in {"BYTE_DATA", "WORD_DATA", "BLOCK_DATA", "I2C_BLOCK_DATA"} ->
         IF f.rw = "R" THEN SmbusWriteEntry(f, 0, 0, FT260_FLAG_START)
         ELSE SmbusWriteEntry(f, SmbusDataLen(f), SmbusDataPtr(f), FT260_FLAG_START_STOP)
    [] OTHER -> GoExit(f, EOPNOTSUPP)

\* the branch of ft260_i2c_xfer (711-726) or ft260_smbus_xfer after the
\* power hint succeeded
Dispatch(f) ==
  CASE f.op = "read" -> ReadEntry(f, f.rlen, FT260_FLAG_START_STOP, 0)
    [] f.op = "write" -> WriteEntry(f, f.wlen, FT260_FLAG_START_STOP)
    [] f.op = "combined" -> WriteReadEntry(f)
    [] OTHER -> SmbusDispatch(f)

\* move caller c to where step record n says
Goto(c, n) ==
  /\ pc' = [pc EXCEPT ![c] = n.pc]
  /\ fr' = [fr EXCEPT ![c] = n.f]
  /\ rep_flag' = IF n.repflag = NULL THEN rep_flag ELSE n.repflag

\* ------------------------------------------------------------ transport
\* what a transport call can answer
Outcomes == {0, ENODEV}

\* bus_status bytes the device puts in the I2C status report
StatusBytes == {32, 1, 64, 6, 18}

\* answers to a get of the I2C status feature report
StatusOutcomes == [ret : {ENODEV}, bus_status : {0}]
                  \cup [ret : {0}, bus_status : StatusBytes]

\* ft260_xfer_status, lines 409-433: the value returned for answer o
XferStatusRet(o, bus_busy) ==
  IF o.ret < 0 THEN o.ret
  ELSE IF BitAnd(o.bus_status, BitOr(FT260_I2C_STATUS_CTRL_BUSY, bus_busy)) # 0 THEN EAGAIN
  ELSE IF BitAnd(o.bus_status, FT260_I2C_STATUS_ERROR) # 0 THEN EIO
  ELSE 0

\* ft260_xfer_status, line 416: the cached clock after answer o. (The
\* wakeup read of lines 395-407 only moves need_wakeup_at; time is not
\* modelled, so it leaves no trace here.)
XferStatusClock(o, old) == IF o.ret < 0 THEN old ELSE dclock

\* the answers the device gives to the polls after one write chunk: the
\* busy byte b for the first nb polls, then o
BusyRuns == {0, 1, 99, 100}
BusyBytes == {1, 64}
PollAnswer(k, nb, b, o) == IF k <= nb THEN [ret |-> 0, bus_status |-> b] ELSE o

\* variant of PollLoop: the loop tests try-- and so polls once more
PollLoopOneMore(try, nb, again_b, again_o) ==
  LET stops == {k \in 1..(try + 1) :
                  (IF k <= nb THEN ~again_b ELSE ~again_o) \/ k = try + 1}
  IN CHOOSE k \in stops : \A j \in stops : k <= j

\* ft260_hid_output_report_check_status 487-491: the do-while over
\* ft260_xfer_status, started with the given try count. The body runs for
\* poll 1, 2, ... and the loop is left after the first poll whose answer is
\* not -EAGAIN, or after poll number try when --try reaches 0. again_b and
\* again_o say whether ft260_xfer_status returns -EAGAIN for the busy byte
\* and for the last answer. The value is the number of polls made.
PollLoop(try, nb, again_b, again_o) ==
  LET stops == {k \in 1..try : (IF k <= nb THEN ~again_b ELSE ~again_o) \/ k = try}
  IN CHOOSE k \in stops : \A j \in stops : k <= j

\* one entry of the transport log
WrEntry(c, r, ok) ==
  [kind |-> "wr", by |-> c, owner |-> lock, report |-> r.report,
   address |-> r.address, flag |-> r.flag, length |-> r.length,
   data |-> r.data, base |-> 0, ok |-> ok]
RdEntry(c, f, ok) ==
  [kind |-> "rd", by |-> c, owner |-> lock, report |-> FT260_I2C_READ_REQ,
   address |-> f.addr, flag |-> f.flag, length |-> f.rd_len,
   data |-> <<>>, base |-> f.dptr, ok |-> ok]
ResetEntry(c, ok) ==
  [kind |-> "reset", by |-> c, owner |-> lock, report |-> 0,
   address |-> 0, flag |-> 0, length |-> 0, data |-> <<>>, base |-> 0, ok |-> ok]

\* variant of LockFree: mutex_lock never waits
LockFreeNoWait == TRUE

\* ---------------------------------------------------------------- calls
\* mutex_lock(&dev->lock) can return
LockFree == lock = 0

\* ft260_i2c_xfer 702 / ft260_smbus_xfer 745: take the lock for a new call
Lock(c) ==
  /\ pc[c] = "idle"
  /\ calls < MaxCalls
  /\ LockFree
  /\ \E rq \in Requests(workload) :
       /\ fr' = [fr EXCEPT ![c] = NewFrame(rq)]
       /\ buf_len' = BufLen(rq)
  /\ buf' = <<>>
  /\ lock' = c
  /\ pc' = [pc EXCEPT ![c] = "power"]
  /\ log' = <<>>
  /\ featget' = 0
  /\ fin' = NoFin
  /\ ev' = NoEv
  /\ status' = NoStatus
  /\ oob' = FALSE
  /\ calls' = calls + 1
  /\ UNCHANGED <<uartvars, workload, strays, rep_flag, read_buf, read_idx, read_len, clock, wait, dev_pending, dev_chunk, dclock>>

\* the lock after the failed power hint returned (707 / 750)
UnlockOnPowerFail(c) == 0

\* hid_hw_power(PM_HINT_FULLON), lines 704-709 / 747-752, then the dispatch
Power(c) ==
  /\ pc[c] = "power"
  /\ \E ret \in Outcomes :
       IF ret < 0
       THEN /\ lock' = UnlockOnPowerFail(c)
            /\ pc' = [pc EXCEPT ![c] = "idle"]
            /\ fin' = [c |-> c, op |-> fr[c].op, ret |-> ret, f |-> fr[c], power |-> FALSE]
            /\ fr' = [fr EXCEPT ![c] = NoFrame]
            /\ UNCHANGED rep_flag
       ELSE /\ Goto(c, Dispatch(fr[c]))
            /\ UNCHANGED <<lock, fin>>
  /\ ev' = NoEv
  /\ status' = NoStatus
  /\ UNCHANGED <<uartvars, workload, calls, read_buf, read_idx, read_len, clock, wait, buf,
                 oob, log, featget, dev_pending, dev_chunk, strays, dclock, buf_len>>

\* i2c_exit / smbus_exit: hid_hw_power(PM_HINT_NORMAL), mutex_unlock, return
Exit(c) ==
  /\ pc[c] = "exit"
  /\ lock' = 0
  /\ pc' = [pc EXCEPT ![c] = "idle"]
  /\ fin' = [c |-> c, op |-> fr[c].op, ret |-> fr[c].ret, f |-> fr[c], power |-> TRUE]
  /\ fr' = [fr EXCEPT ![c] = NoFrame]
  /\ ev' = NoEv
  /\ status' = NoStatus
  /\ UNCHANGED <<uartvars, workload, calls, rep_flag, read_buf, read_idx, read_len, clock, wait,
                 buf, oob, log, featget, dev_pending, dev_chunk,
                 strays, dclock, buf_len>>

\* ----------------------------------------------------------- write path
\* ft260_i2c_write 514-520: length of the next chunk
WrChunkLen(len) == IF len <= FT260_WR_DATA_MAX THEN len ELSE FT260_WR_DATA_MAX

\* variant of WrChunkFlag: the stop condition goes on every chunk
WrChunkFlagAlwaysStop(cur, len, argflag) ==
  IF argflag = FT260_FLAG_START_STOP THEN BitOr(cur, FT260_FLAG_STOP) ELSE cur

\* ft260_i2c_write 514-517: rep->flag of the next chunk
WrChunkFlag(cur, len, argflag) ==
  IF len <= FT260_WR_DATA_MAX /\ argflag = FT260_FLAG_START_STOP
  THEN BitOr(cur, FT260_FLAG_STOP) ELSE cur

\* ft260_i2c_write 526: memcpy(rep->data, &data[idx], wr_len)
WrChunkData(idx, wr_len) == DataSlice(idx, wr_len)

\* variant of CsBusBusy: the bus-busy bit is checked after every chunk
CsBusBusyAlways(flag) == FT260_I2C_STATUS_BUS_BUSY

\* ft260_hid_output_report_check_status 482-485
CsBusBusy(flag) == IF flag = FT260_FLAG_START THEN 0 ELSE FT260_I2C_STATUS_BUS_BUSY

\* the division at line 470 trapped
DivTrap == 0 - 1

\* ft260_hid_output_report_check_status 470: what len * 9000 / dev->clock
\* yields. The division by a clock of 0 is undefined: it traps, or the
\* processor leaves 0 or some other value as the quotient.
CsUsec(len, clk) ==
  IF clk = 0 THEN {DivTrap, 0, 2147483647} ELSE {(len * 9000) \div clk}

\* ft260_hid_output_report_check_status 471-473: the time slept before the
\* first poll, 0 for none
CsSleep(usec) == IF usec > 2000 THEN usec - 1500 ELSE 0

\* ft260_hid_output_report_check_status 461-485: send the report in r (len
\* bytes), compute the transfer time, sleep, set up the poll
CheckStatusSend(c, f, r, len) ==
  \E ret \in Outcomes :
    /\ log' = Append(log, WrEntry(c, r, ret = 0))
    /\ IF ret < 0
       THEN /\ fr' = [fr EXCEPT ![c] = [f EXCEPT !.ret = ret]]
            /\ pc' = [pc EXCEPT ![c] = "cs_reset"]
       ELSE \E usec \in CsUsec(len, clock) :
              IF usec = DivTrap
              THEN /\ fr' = [fr EXCEPT ![c] = f]
                   /\ pc' = [pc EXCEPT ![c] = "oops"]
              ELSE /\ fr' = [fr EXCEPT ![c] = [f EXCEPT !.usec = usec,
                                                 !.sleep = CsSleep(usec),
                                                 !.try = PollTries,
                                                 !.bus_busy = CsBusBusy(r.flag)]]
                   /\ pc' = [pc EXCEPT ![c] = "cs_poll"]

\* ft260_i2c_write 513-533: build one chunk and hand it to the transport
WrChunk(c) ==
  /\ pc[c] = "wr_chunk"
  /\ LET f == fr[c]
         wl == WrChunkLen(f.len)
         r == [report |-> FT260_I2C_DATA_REPORT_ID(wl), address |-> f.addr,
               flag |-> WrChunkFlag(rep_flag, f.len, f.argflag),
               length |-> wl, data |-> WrChunkData(f.idx, wl)]
     IN /\ rep_flag' = r.flag
        /\ CheckStatusSend(c, [f EXCEPT !.wr_len = wl], r, wl + WrHeaderLen)
  /\ ev' = NoEv
  /\ status' = NoStatus
  /\ UNCHANGED <<uartvars, workload, calls, lock, read_buf, read_idx, read_len, clock, wait, buf, oob, featget, fin, dev_pending, dev_chunk, strays, dclock, buf_len>>

\* ft260_smbus_write 560-574: command byte plus data in one report
SwSend(c) ==
  /\ pc[c] = "sw_send"
  /\ LET f == fr[c]
         length == f.data_len + 1
         len == WrHeaderLen + length
         r == [report |-> FT260_I2C_DATA_REPORT_ID(len), address |-> f.addr,
               flag |-> f.argflag, length |-> length,
               data |-> <<f.cmd>> \o DataSlice(f.doff, f.data_len)]
     IN /\ rep_flag' = r.flag
        /\ CheckStatusSend(c, f, r, len)
  /\ ev' = NoEv
  /\ status' = NoStatus
  /\ UNCHANGED <<uartvars, workload, calls, lock, read_buf, read_idx, read_len, clock, wait, buf, oob, featget, fin, dev_pending, dev_chunk, strays, dclock, buf_len>>

\* ft260_i2c_write 539-545 / ft260_smbus_write 576: the chunk succeeded
WriteAfterChunk(f) ==
  IF f.fn = "write"
  THEN LET g == [f EXCEPT !.len = f.len - f.wr_len, !.idx = f.idx + f.wr_len]
       IN IF g.len > 0 THEN [pc |-> "wr_chunk", repflag |-> 0, f |-> g]
          ELSE [CallerAfter(g, "write", 0) EXCEPT !.repflag = 0]
  ELSE CallerAfter(f, "smbus_write", 0)

\* the code returned by ft260_hid_output_report_check_status when the poll
\* did not end with 0 (line 497)
CsPollFailRet == EIO

\* ft260_hid_output_report_check_status 487-497: the poll loop and its
\* verdict
CsPoll(c) ==
  /\ pc[c] = "cs_poll"
  /\ \E o \in StatusOutcomes, nb \in BusyRuns, b \in BusyBytes :
     \E again_b \in {XferStatusRet(PollAnswer(1, 1, b, o), fr[c].bus_busy) = EAGAIN},
        again_o \in {XferStatusRet(o, fr[c].bus_busy) = EAGAIN} :
     \E n \in {PollLoop(fr[c].try, nb, again_b, again_o)} :
     \E last \in {PollAnswer(n, nb, b, o)} :
     \E ret \in {XferStatusRet(last, fr[c].bus_busy)} :
       /\ clock' = XferStatusClock(last, IF n > 1 THEN dclock ELSE clock)
       /\ featget' = featget + n
       /\ status' = [by |-> c, path |-> "write", ret |-> last.ret,
                      bus_status |-> last.bus_status, mask |-> fr[c].bus_busy,
                      polls |-> n, busy_run |-> nb, busy_byte |-> b, answer |-> o]
       /\ IF ret = 0
          THEN Goto(c, WriteAfterChunk([fr[c] EXCEPT !.try = 0, !.usec = 0, !.sleep = 0]))
          ELSE /\ fr' = [fr EXCEPT ![c] = [fr[c] EXCEPT !.try = 0, !.usec = 0, !.sleep = 0, !.ret = CsPollFailRet]]
               /\ pc' = [pc EXCEPT ![c] = "cs_reset"]
               /\ UNCHANGED rep_flag
  /\ ev' = NoEv
  /\ UNCHANGED <<uartvars, workload, calls, lock, read_buf, read_idx, read_len, wait, buf, oob, log, fin,
                 dev_pending, dev_chunk, strays, dclock, buf_len>>

\* the device after a reset request: the response it still owed is given up
\* (frames of an abandoned response that arrive late are Stray frames)
DevAfterReset(ret) == 0

\* ft260_i2c_reset (372-387) called from check_status 465 / 496, then the
\* return into the caller
CsReset(c) ==
  /\ pc[c] = "cs_reset"
  /\ \E ret \in Outcomes :
       /\ log' = Append(log, ResetEntry(c, ret = 0))
       /\ dev_pending' = DevAfterReset(ret)
       /\ dev_chunk' = 0
  /\ Goto(c, CallerAfter(fr[c], fr[c].fn, fr[c].ret))
  /\ ev' = NoEv
  /\ status' = NoStatus
  /\ UNCHANGED <<uartvars, workload, calls, lock, read_buf, read_idx, read_len, clock, wait, buf, oob, featget, fin, strays, dclock, buf_len>>

\* ------------------------------------------------------------ read path
\* ft260_i2c_read 594-599: length of the next chunk
RdChunkLen(len, rd_data_max) == IF len <= rd_data_max THEN len ELSE rd_data_max

\* ft260_i2c_read 594-596: flag of the next request
RdChunkFlag(flag, len, rd_data_max) ==
  IF len <= rd_data_max THEN BitOr(flag, FT260_FLAG_STOP) ELSE flag

\* variant of RdNextMax: the later chunks keep the first chunk's limit
RdNextMaxKeepFirst == FirstRdDataMax

\* ft260_i2c_read 600: the limit for the chunks after this one
RdNextMax == FT260_RD_DATA_MAX

\* ft260_i2c_read 593-610: chunk length, flag, reinit_completion
RdTop(c) ==
  /\ pc[c] = "rd_top"
  /\ LET f == fr[c]
     IN fr' = [fr EXCEPT ![c] = [f EXCEPT
                 !.rd_len = RdChunkLen(f.len, f.rd_data_max),
                 !.flag = RdChunkFlag(f.flag, f.len, f.rd_data_max),
                 !.rd_data_max = RdNextMax,
                 !.chunk = f.chunk + 1]]
  /\ wait' = 0
  /\ pc' = [pc EXCEPT ![c] = "rd_set_idx"]
  /\ ev' = NoEv
  /\ status' = NoStatus
  /\ UNCHANGED <<uartvars, workload, calls, lock, rep_flag, read_buf, read_idx, read_len, clock, buf, oob, log, featget, fin, dev_pending, dev_chunk, strays,
                 dclock, buf_len>>

\* variant of RdFreshIdx: the received count of the last chunk is kept
RdFreshIdxKeep == read_idx

\* the received count a chunk starts with (612)
RdFreshIdx == 0

\* ft260_i2c_read 612: dev->read_idx = 0
RdSetIdx(c) ==
  /\ pc[c] = "rd_set_idx"
  /\ read_idx' = RdFreshIdx
  /\ pc' = [pc EXCEPT ![c] = "rd_set_buf"]
  /\ ev' = NoEv
  /\ status' = NoStatus
  /\ UNCHANGED <<uartvars, workload, calls, fr, lock, rep_flag, read_buf, read_len, clock, wait, buf, oob, log, featget, fin, dev_pending, dev_chunk, strays,
                 dclock, buf_len>>

\* ft260_i2c_read 613: dev->read_buf = data
RdSetBuf(c) ==
  /\ pc[c] = "rd_set_buf"
  /\ read_buf' = fr[c].dptr
  /\ pc' = [pc EXCEPT ![c] = "rd_set_len"]
  /\ ev' = NoEv
  /\ status' = NoStatus
  /\ UNCHANGED <<uartvars, workload, calls, fr, lock, rep_flag, read_idx, read_len, clock, wait, buf, oob, log, featget, fin, dev_pending, dev_chunk, strays,
                 dclock, buf_len>>

\* ft260_i2c_read 614: dev->read_len = rd_len
RdSetLen(c) ==
  /\ pc[c] = "rd_set_len"
  /\ read_len' = fr[c].rd_len
  /\ pc' = [pc EXCEPT ![c] = "rd_send"]
  /\ ev' = NoEv
  /\ status' = NoStatus
  /\ UNCHANGED <<uartvars, workload, calls, fr, lock, rep_flag, read_buf, read_idx, clock, wait, buf, oob, log, featget, fin, dev_pending, dev_chunk, strays,
                 dclock, buf_len>>

\* variant of RdSendFailPc: a failed send resets the controller first
RdSendFailPcReset == "rd_reset"

\* where ft260_i2c_read goes when sending the request failed (617-620)
RdSendFailPc == "rd_exit"

\* variant of RdSendOkPc: the read does not wait for the completion
RdSendOkPcNoWait == "rd_clear"

\* where ft260_i2c_read goes after the request was sent (623)
RdSendOkPc == "rd_wait"

\* ft260_i2c_read 616-620: send the read request
RdSend(c) ==
  /\ pc[c] = "rd_send"
  /\ \E ret \in Outcomes :
       /\ log' = Append(log, RdEntry(c, fr[c], ret = 0))
       /\ IF ret < 0
          THEN /\ fr' = [fr EXCEPT ![c].ret = ret]
               /\ pc' = [pc EXCEPT ![c] = RdSendFailPc]
               /\ UNCHANGED <<dev_pending, dev_chunk>>
          ELSE /\ dev_pending' = fr[c].rd_len
               /\ dev_chunk' = fr[c].chunk
               /\ pc' = [pc EXCEPT ![c] = RdSendOkPc]
               /\ UNCHANGED fr
  /\ ev' = NoEv
  /\ status' = NoStatus
  /\ UNCHANGED <<uartvars, workload, calls, lock, rep_flag, read_buf, read_idx, read_len, clock, wait,
                 buf, oob, featget, fin, strays, dclock, buf_len>>

\* ft260_i2c_read 623: wait_for_completion_timeout returned non-zero
RdWaitDone(c) ==
  /\ pc[c] = "rd_wait"
  /\ wait > 0
  /\ wait' = wait - 1
  /\ pc' = [pc EXCEPT ![c] = "rd_clear"]
  /\ ev' = NoEv
  /\ status' = NoStatus
  /\ UNCHANGED <<uartvars, workload, calls, fr, lock, rep_flag, read_buf, read_idx, read_len, clock,
                 buf, oob, log, featget, fin, dev_pending,
                 dev_chunk, strays, dclock, buf_len>>

\* where ft260_i2c_read goes after the wait timed out (624-626)
RdTimeoutPc == "rd_reset"

\* ft260_i2c_read 623-624: the 5 s passed without a completion
RdTimeout(c) ==
  /\ pc[c] = "rd_wait"
  /\ wait = 0
  /\ fr' = [fr EXCEPT ![c].ret = ETIMEDOUT]
  /\ pc' = [pc EXCEPT ![c] = RdTimeoutPc]
  /\ ev' = NoEv
  /\ status' = NoStatus
  /\ UNCHANGED <<uartvars, workload, calls, lock, rep_flag, read_buf, read_idx, read_len, clock, wait,
                 buf, oob, log, featget, fin, dev_pending,
                 dev_chunk, strays, dclock, buf_len>>

\* ft260_i2c_read 629-632: dev->read_buf = NULL, busy mask for the poll
RdClear(c) ==
  /\ pc[c] = "rd_clear"
  /\ read_buf' = NULL
  /\ fr' = [fr EXCEPT ![c].bus_busy =
               IF BitAnd(fr[c].flag, FT260_FLAG_STOP) # 0
               THEN FT260_I2C_STATUS_BUS_BUSY ELSE fr[c].bus_busy]
  /\ pc' = [pc EXCEPT ![c] = "rd_status"]
  /\ ev' = NoEv
  /\ status' = NoStatus
  /\ UNCHANGED <<uartvars, workload, calls, lock, rep_flag, read_idx, read_len, clock, wait, buf,
                 oob, log, featget, fin, dev_pending, dev_chunk, strays,
                 dclock, buf_len>>

\* variant of RdStatusFailPc: the failed status read skips the reset
RdStatusFailPcNoReset == "rd_exit"

\* where ft260_i2c_read goes when the status read did not return 0 (635-639)
RdStatusFailPc == "rd_reset"

\* ft260_i2c_read 634-645: one status read, then the loop bookkeeping
RdStatus(c) ==
  /\ pc[c] = "rd_status"
  /\ \E o \in StatusOutcomes :
       LET f == fr[c]
           r == XferStatusRet(o, f.bus_busy)
           g == [f EXCEPT !.len = f.len - f.rd_len, !.dptr = f.dptr + f.rd_len,
                          !.flag = 0, !.ret = r]
       IN /\ clock' = XferStatusClock(o, clock)
          /\ featget' = featget + 1
          /\ status' = [by |-> c, path |-> "read", ret |-> o.ret,
                         bus_status |-> o.bus_status, mask |-> f.bus_busy, polls |-> 1]
          /\ IF r < 0
             THEN /\ fr' = [fr EXCEPT ![c] = [f EXCEPT !.ret = EIO]]
                  /\ pc' = [pc EXCEPT ![c] = RdStatusFailPc]
             ELSE /\ fr' = [fr EXCEPT ![c] = g]
                  /\ pc' = [pc EXCEPT ![c] = IF g.len > 0 THEN "rd_top" ELSE "rd_exit"]
  /\ ev' = NoEv
  /\ UNCHANGED <<uartvars, workload, calls, lock, rep_flag, read_buf, read_idx, read_len, wait, buf, oob, log,
                 fin, dev_pending, dev_chunk, strays, dclock, buf_len>>

\* ft260_i2c_reset called from ft260_i2c_read 625 / 637
RdReset(c) ==
  /\ pc[c] = "rd_reset"
  /\ \E ret \in Outcomes :
       /\ log' = Append(log, ResetEntry(c, ret = 0))
       /\ dev_pending' = DevAfterReset(ret)
       /\ dev_chunk' = 0
  /\ pc' = [pc EXCEPT ![c] = "rd_exit"]
  /\ ev' = NoEv
  /\ status' = NoStatus
  /\ UNCHANGED <<uartvars, workload, calls, fr, lock, rep_flag, read_buf, read_idx, read_len, clock, wait,
                 buf, oob, featget, fin, strays, dclock, buf_len>>

\* variant of RdExitBuf: the exit label leaves the descriptor as it is
RdExitBufKeep == read_buf

\* dev->read_buf after the exit label (648)
RdExitBuf == NULL

\* ft260_i2c_read_exit 647-649: clear the descriptor and return ret
RdExit(c) ==
  /\ pc[c] = "rd_exit"
  /\ read_buf' = RdExitBuf
  /\ Goto(c, CallerAfter(fr[c], "read", fr[c].ret))
  /\ ev' = NoEv
  /\ status' = NoStatus
  /\ UNCHANGED <<uartvars, workload, calls, lock, read_idx, read_len, clock, wait, buf, oob,
                 log, featget, fin, dev_pending, dev_chunk, strays, dclock, buf_len>>

\* ------------------------------------------------------- inbound reports
ReadPcs == {"rd_top", "rd_set_idx", "rd_set_buf", "rd_set_len", "rd_send",
            "rd_wait", "rd_clear", "rd_status", "rd_reset", "rd_exit"}

\* the reader has stored its buffer pointer / has sent its request
ArmedPcs == {"rd_set_len", "rd_send"}
SentPcs == {"rd_wait", "rd_clear", "rd_status", "rd_reset"}

\* the read request of the chunk in progress could not be sent
SendFailed == Len(log) > 0 /\ log[Len(log)].kind = "rd" /\ ~log[Len(log)].ok

\* where the reader stands when a frame is delivered
ReaderAt ==
  IF \E c \in Callers : pc[c] \in SentPcs THEN "sent"
  ELSE IF \E c \in Callers : pc[c] = "rd_exit"
  THEN (IF SendFailed THEN "unsent" ELSE "sent")
  ELSE IF \E c \in Callers : pc[c] \in ArmedPcs THEN "armed"
  ELSE IF \E c \in Callers : pc[c] \in ReadPcs THEN "early"
  ELSE "idle"

\* the number of the chunk the executing ft260_i2c_read is at, 0 without one
ReaderChunk ==
  IF \E c \in Callers : pc[c] \in ReadPcs
  THEN fr[CHOOSE c \in Callers : pc[c] \in ReadPcs].chunk ELSE 0

\* ft260_raw_event 1739-1740 / 1763-1764: the report-ID ranges
FrameClass(report) ==
  IF report >= FT260_I2C_REPORT_MIN /\ report <= FT260_I2C_REPORT_MAX THEN "i2c"
  ELSE IF report >= FT260_UART_REPORT_MIN /\ report <= FT260_UART_REPORT_MAX THEN "uart"
  ELSE "other"

\* ft260_raw_event 1744-1745: an I2C frame that is not accepted
I2cFrameRejected(length) ==
  read_buf = NULL \/ length > read_len - read_idx

\* variant of FrameTooLong: the limit is off by one
FrameTooLongOffByOne(length) == length > FT260_RD_DATA_MAX + 1

\* ft260_raw_event 1760: the frame is longer than any the device sends
FrameTooLong(length) == length > FT260_RD_DATA_MAX

\* ft260_raw_event 1755: the read is satisfied
ReadSatisfied(idx, len) == idx = len

\* dev->ft260_is_serial (885-899): the interface is the UART one, so that
\* ft260_probe (1687-1695) set up the tty port and no I2C adapter
ft260_is_serial == workload \in UartModes \/ workload = "ports"

\* FT260_REPORT_MAX_LENGTH: the size of a full report
FT260_REPORT_MAX_LENGTH == 64

\* struct ft260_input_report 242-246: the report ID and the length field
InputHeaderLen == 2

\* ft260_raw_event 1733-1770 for a report of size bytes with the given ID
\* and length field (the size is passed in and never read); src is the
\* number of the read request its payload answers, 0 for a frame that
\* answers none.
\* ft260_uart_receive_chars 1201-1221, called by ft260_raw_event 1765 for
\* every frame in the UART range of length up to FT260_RD_DATA_MAX, whatever
\* the mode: tty_insert_flip_string takes all the bytes or, the flip buffer
\* being full, none; port->icount.rx grows by what it took. On a context in
\* I2C mode dev->port was never initialised (tty_port_init is called by
\* ft260_uart_probe only), and the call may also fault.
RawEvent(report, length, src, size) ==
  LET cls == FrameClass(report)
      at == ReaderAt
      e == [cls |-> cls, report |-> report, length |-> length, size |-> size,
            at |-> at, inflight |-> at # "idle", had_buf |-> read_buf # NULL]
  IN
  IF cls = "i2c"
  THEN IF I2cFrameRejected(length)
       THEN /\ ev' = e @@ [ret |-> RawErr, copied |-> 0, completed |-> FALSE, uart |-> FALSE]
            /\ UNCHANGED <<buf, oob, read_idx, wait>>
       ELSE LET lo == read_buf + read_idx
                nidx == (read_idx + length) % 65536
            IN /\ buf' = Append(buf, [lo |-> lo, n |-> length, src |-> src, at |-> at,
                                      chunk |-> ReaderChunk,
                                      done |-> ReadSatisfied(nidx, read_len)])
               /\ oob' = (oob \/ lo + length > buf_len)
               /\ read_idx' = nidx
               /\ wait' = IF ReadSatisfied(nidx, read_len) THEN wait + 1 ELSE wait
               /\ ev' = e @@ [ret |-> 0, copied |-> length,
                              completed |-> ReadSatisfied(nidx, read_len), uart |-> FALSE]
  ELSE /\ UNCHANGED <<buf, oob, read_idx, wait>>
       /\ IF FrameTooLong(length)
          THEN ev' = e @@ [ret |-> EBADR, copied |-> 0, completed |-> FALSE, uart |-> FALSE]
          ELSE IF cls = "uart"
          THEN \E n \in {0, length}, oops \in (IF ft260_is_serial THEN {FALSE} ELSE BOOLEAN) :
                 ev' = e @@ [ret |-> IF oops THEN 0 ELSE n, copied |-> 0,
                             completed |-> FALSE, uart |-> TRUE,
                             rx |-> IF oops THEN 0 ELSE n, oops |-> oops]
          ELSE ev' = e @@ [ret |-> 0, copied |-> 0, completed |-> FALSE, uart |-> FALSE]

\* the input report carries at most this many bytes of a read response
DevFrameMax == 60

\* the device answers the read request it was sent
DevFrame ==
  /\ dev_pending > 0
  /\ LET n == Min(DevFrameMax, dev_pending)
     IN /\ RawEvent(FT260_I2C_DATA_REPORT_ID(n), n, dev_chunk, FT260_REPORT_MAX_LENGTH)
        /\ dev_pending' = dev_pending - n
        /\ dev_chunk' = IF dev_pending = n THEN 0 ELSE dev_chunk
  /\ status' = NoStatus
  /\ UNCHANGED <<uartvars, workload, calls, pc, fr, lock, rep_flag, read_buf, read_len, clock, log,
                 featget, fin, strays, dclock, buf_len>>

\* a report ID outside the I2C and UART data ranges
OtherReport == FT260_UART_REPORT_MAX + 1
StrayFrames ==
  {<<p[1], p[2], FT260_REPORT_MAX_LENGTH>> :
     p \in {<<FT260_I2C_REPORT_MAX, 0>>, <<FT260_I2C_REPORT_MAX, 1>>,
            <<FT260_I2C_REPORT_MAX, 60>>,
            <<FT260_I2C_REPORT_MAX, FT260_RD_DATA_MAX + 1>>,
            <<FT260_UART_REPORT_MIN, 1>>,
            <<FT260_UART_REPORT_MIN, FT260_RD_DATA_MAX + 1>>,
            <<OtherReport, 1>>, <<OtherReport, FT260_RD_DATA_MAX + 1>>}}
  \cup {<<FT260_I2C_REPORT_MAX, 60, InputHeaderLen + 1>>,
        <<FT260_UART_REPORT_MIN, 60, InputHeaderLen + 1>>}

\* a frame nobody asked for: a late or spurious report of any kind
Stray ==
  /\ strays < MaxStray
  /\ strays' = strays + 1
  /\ \E fm \in StrayFrames : RawEvent(fm[1], fm[2], 0, fm[3])
  /\ status' = NoStatus
  /\ UNCHANGED <<uartvars, workload, calls, pc, fr, lock, rep_flag, read_buf, read_len, clock, log,
                 featget, fin, dev_pending, dev_chunk, dclock, buf_len>>

\* ================================================================ UART
\* C integer division, which truncates towards zero
CDiv(a, b) == IF a >= 0 THEN a \div b ELSE 0 - ((0 - a) \div b)

\* FT260_UART_DATA_REPORT_ID(len)
FT260_UART_DATA_REPORT_ID(len) == FT260_UART_REPORT_MIN + CDiv(len - 1, 4)

\* ------------------------------------------------------------ the kfifo
\* The queue holds runs of bytes: [w, lo, n] stands for the bytes lo .. lo+n-1
\* of the buffer passed to write number w.
RECURSIVE KfifoLen(_)
\* kfifo_len
KfifoLen(q) == IF q = <<>> THEN 0 ELSE Head(q).n + KfifoLen(Tail(q))

\* kfifo_in: the number of bytes of count that fit
KfifoInLen(q, count) == Min(count, FIFO_SIZE - KfifoLen(q))

\* kfifo_in: the queue after n bytes of write w went in
KfifoIn(q, w, n) == IF n = 0 THEN q ELSE Append(q, [w |-> w, lo |-> 0, n |-> n])

RECURSIVE KfifoPeek(_, _)
\* kfifo_out: the first k bytes of the queue
KfifoPeek(q, k) ==
  IF k = 0 \/ q = <<>> THEN <<>>
  ELSE IF Head(q).n <= k THEN <<Head(q)>> \o KfifoPeek(Tail(q), k - Head(q).n)
  ELSE <<[Head(q) EXCEPT !.n = k]>>

RECURSIVE KfifoOut(_, _)
\* kfifo_out: the queue without its first k bytes
KfifoOut(q, k) ==
  IF k = 0 \/ q = <<>> THEN q
  ELSE IF Head(q).n <= k THEN KfifoOut(Tail(q), k - Head(q).n)
  ELSE <<[Head(q) EXCEPT !.lo = @ + k, !.n = @ - k]>> \o Tail(q)

\* ---------------------------------------------------------- line settings
DefaultTermios ==
  [baud |-> DefaultBaud, csize |-> 8, cstopb |-> FALSE, parenb |-> FALSE,
   parodd |-> FALSE, crtscts |-> FALSE]

\* baud rates a caller may ask for: around both limits, and 0
Bauds == {0, FT260_CFG_BAUD_MIN - 1, FT260_CFG_BAUD_MIN, DefaultBaud,
          FT260_CFG_BAUD_MAX, FT260_CFG_BAUD_MAX + 1}

\* the line settings tried: the default with one setting changed
TermiosSet ==
  {[DefaultTermios EXCEPT !.baud = b] : b \in Bauds}
  \cup {[DefaultTermios EXCEPT !.csize = s] : s \in {5, 7}}
  \cup {[DefaultTermios EXCEPT !.cstopb = TRUE], [DefaultTermios EXCEPT !.crtscts = TRUE],
        [DefaultTermios EXCEPT !.parenb = TRUE],
        [DefaultTermios EXCEPT !.parenb = TRUE, !.parodd = TRUE]}

\* the settings a line is opened with
TermiosFor(w) == IF w = "uart_cfg" THEN TermiosSet ELSE {DefaultTermios}

\* ft260_uart_change_speed 1305: the rate is not one the chip supports
BaudInvalid(baud) == baud = 0 \/ baud < FT260_CFG_BAUD_MIN \/ baud > FT260_CFG_BAUD_MAX

\* ft260_uart_change_speed 1304-1312: the rate that is configured
BaudCoerced(baud) == IF BaudInvalid(baud) THEN DefaultBaud ELSE baud

\* the four bytes of x, least significant first
Le32Bytes(x) ==
  <<x % 256, (x \div 256) % 256, (x \div 65536) % 256, (x \div 16777216) % 256>>

\* cpu_to_le32: the memory image of the result is x in little-endian order
\* on every host
CpuToLe32(x) == Le32Bytes(x)

\* put_unaligned_le32(v, p) for the word v whose memory image is mem: v is
\* read in host order and stored least significant byte first
PutUnalignedLe32(mem) ==
  IF host_be THEN <<mem[4], mem[3], mem[2], mem[1]>> ELSE mem

\* ft260_uart_change_speed 1315-1318: the flow control asked for
UartFlowCtrlRequested(t) ==
  IF t.crtscts THEN FT260_CFG_FLOW_CTRL_RTS_CTS ELSE FT260_CFG_FLOW_CTRL_OFF

\* variant of UartFlowCtrlSent: the flow control asked for is configured
UartFlowCtrlSentAsAsked(requested) == requested

\* ft260_uart_change_speed 1326: the field is overwritten before the report
\* is sent
UartFlowCtrlSent(requested) == FT260_CFG_FLOW_CTRL_NONE

\* ft260_uart_change_speed 1272-1327: the configuration report for termios t
UartConfigReq(t) ==
  [report |-> FT260_SYSTEM_SETTINGS,
   request |-> FT260_SET_UART_CONFIG,
   flow_ctrl |-> UartFlowCtrlSent(UartFlowCtrlRequested(t)),
   baudrate |-> PutUnalignedLe32(CpuToLe32(BaudCoerced(t.baud))),
   data_bit |-> IF t.csize = 7 THEN FT260_CFG_DATA_BITS_7 ELSE FT260_CFG_DATA_BITS_8,
   parity |-> IF t.parenb
              THEN (IF t.parodd THEN FT260_CFG_PAR_ODD ELSE FT260_CFG_PAR_EVEN)
              ELSE FT260_CFG_PAR_NO,
   stop_bit |-> IF t.cstopb THEN FT260_CFG_STOP_TWO_BIT ELSE FT260_CFG_STOP_ONE_BIT,
   breaking |-> FT260_CFG_BREAKING_NO]

\* ft260_uart_change_speed 1277-1312: the termios handed back to the caller
TermiosAfter(t) ==
  [t EXCEPT !.csize = IF t.csize \in {5, 6} THEN 8 ELSE t.csize,
            !.baud = BaudCoerced(t.baud)]

\* ft260_uart_change_speed 1306-1311: tty_encode_baud_rate is handed the
\* result of tty_port_tty_get without a test
ChangeSpeedDerefsNull(t, tty) == BaudInvalid(t.baud) /\ tty = NULL

\* ft260_uart_change_speed as called by who: one feature report is set and
\* its result returned
ChangeSpeedCall(who, t) ==
  \E ret \in Outcomes :
    cfg' = [by |-> who, termios |-> t, req |-> UartConfigReq(t), sets |-> 1,
            ret |-> ret, after |-> TermiosAfter(t)]

\* one access to the transmit queue or to the tx counter: what is accessed,
\* by which call, and whether port->write_lock is held around it
Access(obj, op, locked) == [obj |-> obj, op |-> op, locked |-> locked]

\* every UART step leaves the I2C side alone
UartFrame ==
  /\ workload \in UartModes
  /\ ev' = NoEv
  /\ UNCHANGED <<workload, pc, fr, lock, rep_flag, read_buf, read_idx, read_len, clock,
                 wait, buf, buf_len, oob, log, featget, fin, status, dev_pending,
                 dev_chunk, strays, calls, dclock, host_be,
                 ft260_uart_device_list, port_ev>>

\* ------------------------------------------------------------ write path
\* ft260_uart_write 1223-1231: the bytes that fit go into the queue
UartWrite ==
  /\ UartFrame
  /\ workload = "uart"
  /\ upc = "idle" /\ port_active /\ rm = "attached"
  /\ uwrites < MaxUartWrites
  /\ \E count \in UartCounts :
       LET len == KfifoInLen(xmit_fifo, count)
       IN /\ xmit_fifo' = KfifoIn(xmit_fifo, uwrites + 1, len)
          /\ ufr' = [id |-> uwrites + 1, count |-> count, len |-> len,
                     before |-> KfifoLen(xmit_fifo), drain |-> 0, data_len |-> 0,
                     ret |-> 0]
          /\ accepted' = accepted + len
  /\ acc' = <<Access("xmit_fifo", "kfifo_in", TRUE)>>
  /\ uwrites' = uwrites + 1
  /\ upc' = "tx_get"
  /\ ulog' = <<>>
  /\ wakeups' = 0
  /\ ufin' = NoUfin
  /\ cfg' = NoCfg
  /\ uev' = "write"
  /\ UNCHANGED <<port_active, port_tty, rm, icount_tx, reschedule_work, wakeup_timer,
                 wakeup_work, cpc, cfr, ka_reads, opens>>

\* ft260_uart_transmit_chars 1162-1170: the line and the queue length
TransmitGet ==
  /\ UartFrame
  /\ acc' = <<Access("xmit_fifo", "kfifo_len", FALSE)>>
  /\ UNCHANGED accepted
  /\ upc = "tx_get"
  /\ LET data_len == KfifoLen(xmit_fifo)
     IN IF port_tty = NULL \/ data_len = 0
        THEN /\ ufr' = [ufr EXCEPT !.ret = EINVAL, !.drain = data_len]
             /\ upc' = "uw_ret"
        ELSE /\ ufr' = [ufr EXCEPT !.data_len = data_len, !.drain = data_len]
             /\ upc' = "tx_chunk"
  /\ cfg' = NoCfg
  /\ uev' = "write"
  /\ UNCHANGED <<port_active, port_tty, rm, xmit_fifo, icount_tx, reschedule_work,
                 wakeup_timer, wakeup_work, ulog, wakeups, ufin, cpc, cfr, ka_reads,
                 opens, uwrites>>

\* ft260_uart_transmit_chars 1173-1188: one pass of the drain loop
TransmitChunk ==
  /\ UartFrame
  /\ UNCHANGED accepted
  /\ upc = "tx_chunk"
  /\ LET want == Min(ufr.data_len, FT260_WR_DATA_MAX)
         len == Min(want, KfifoLen(xmit_fifo))
         r == [report |-> FT260_UART_DATA_REPORT_ID(want), length |-> want,
               data |-> KfifoPeek(xmit_fifo, len), size |-> len + UartHeaderLen]
     IN /\ xmit_fifo' = KfifoOut(xmit_fifo, len)
        /\ \E ret \in Outcomes :
             /\ ulog' = Append(ulog, r @@ [ok |-> ret = 0])
             /\ IF ret < 0
                THEN /\ ufr' = [ufr EXCEPT !.ret = ret]
                     /\ upc' = "uw_ret"
                     /\ UNCHANGED icount_tx
                     /\ acc' = <<Access("xmit_fifo", "kfifo_out", TRUE)>>
                ELSE /\ ufr' = [ufr EXCEPT !.data_len = @ - len]
                     /\ icount_tx' = icount_tx + len
                     /\ acc' = <<Access("xmit_fifo", "kfifo_out", TRUE),
                                 Access("icount.tx", "add", FALSE)>>
                     /\ upc' = IF ufr.data_len - len > 0 THEN "tx_chunk" ELSE "tx_wake"
  /\ cfg' = NoCfg
  /\ uev' = "write"
  /\ UNCHANGED <<port_active, port_tty, rm, reschedule_work, wakeup_timer, wakeup_work,
                 wakeups, ufin, cpc, cfr, ka_reads, opens, uwrites>>

\* variant of TxWakeNeeded: the writers are never woken
TxWakeNeededNever(len) == FALSE

\* ft260_uart_transmit_chars 1191: the free space is above the watermark
TxWakeNeeded(len) == (FIFO_SIZE - len) > TTY_WAKEUP_WATERMARK

\* ft260_uart_transmit_chars 1190-1194: tty_wakeup after the drain
TransmitWakeup ==
  /\ UartFrame
  /\ acc' = <<Access("xmit_fifo", "kfifo_len", FALSE)>>
  /\ UNCHANGED accepted
  /\ upc = "tx_wake"
  /\ wakeups' = IF TxWakeNeeded(KfifoLen(xmit_fifo)) THEN wakeups + 1 ELSE wakeups
  /\ ufr' = [ufr EXCEPT !.ret = 0]
  /\ upc' = "uw_ret"
  /\ cfg' = NoCfg
  /\ uev' = "write"
  /\ UNCHANGED <<port_active, port_tty, rm, xmit_fifo, icount_tx, reschedule_work,
                 wakeup_timer, wakeup_work, ulog, ufin, cpc, cfr, ka_reads, opens,
                 uwrites>>

\* ft260_uart_write 1233-1246: the value returned
UartWriteRet(f, left) ==
  IF f.ret < 0 THEN 0
  ELSE IF left > 0 THEN f.len - left
  ELSE f.len

\* ft260_uart_write 1233-1246: return to the caller
UartWriteReturn ==
  /\ UartFrame
  /\ upc = "uw_ret"
  /\ acc' = IF ufr.ret < 0 THEN <<>> ELSE <<Access("xmit_fifo", "kfifo_len", FALSE)>>
  /\ UNCHANGED accepted
  /\ ufin' = [id |-> ufr.id, count |-> ufr.count, len |-> ufr.len,
              before |-> ufr.before, drain |-> ufr.drain, txret |-> ufr.ret,
              left |-> KfifoLen(xmit_fifo),
              ret |-> UartWriteRet(ufr, KfifoLen(xmit_fifo))]
  /\ ufr' = NoUfr
  /\ upc' = "idle"
  /\ cfg' = NoCfg
  /\ uev' = "write"
  /\ UNCHANGED <<port_active, port_tty, rm, xmit_fifo, icount_tx, reschedule_work,
                 wakeup_timer, wakeup_work, ulog, wakeups, cpc, cfr, ka_reads, opens,
                 uwrites>>

\* ------------------------------------------------------- open and close
\* ft260_uart_activate 1502-1505: the timer after the line was activated
ActivateTimer == IF reschedule_work THEN TRUE ELSE wakeup_timer

\* tty_port_open on a closed line: the tty is attached to the port, then
\* ft260_uart_activate 1484-1508 empties the queue, configures the line and
\* arms the timer when the keep-alive flag is set
Activate ==
  /\ UartFrame
  /\ acc' = <<Access("xmit_fifo", "kfifo_reset", TRUE)>>
  /\ UNCHANGED accepted
  /\ ~port_active /\ rm = "attached" /\ upc = "idle" /\ cpc = "idle"
  /\ opens < MaxOpens
  /\ opens' = opens + 1
  /\ port_tty' = 1
  /\ xmit_fifo' = <<>>
  /\ \E t \in TermiosFor(workload) : ChangeSpeedCall("activate", t)
  /\ wakeup_timer' = ActivateTimer
  /\ port_active' = TRUE
  /\ uev' = "activate"
  /\ UNCHANGED <<rm, icount_tx, reschedule_work, wakeup_work, upc, ufr, ulog, wakeups,
                 ufin, cpc, cfr, ka_reads, uwrites>>

\* ft260_uart_set_termios 1346-1352: the line settings of an open line change
SetTermios ==
  /\ UartFrame
  /\ acc' = <<>>
  /\ UNCHANGED accepted
  /\ workload = "uart_cfg"
  /\ port_active /\ rm = "attached" /\ cpc = "idle"
  /\ \E t \in TermiosSet : cfr' = t
  /\ cpc' = "change_speed"
  /\ cfg' = NoCfg
  /\ uev' = "set_termios"
  /\ UNCHANGED <<port_active, port_tty, rm, xmit_fifo, icount_tx, reschedule_work,
                 wakeup_timer, wakeup_work, upc, ufr, ulog, wakeups, ufin, ka_reads,
                 opens, uwrites>>

\* ft260_uart_change_speed 1263-1334 called from ft260_uart_set_termios
ChangeSpeed ==
  /\ UartFrame
  /\ acc' = <<>>
  /\ UNCHANGED accepted
  /\ cpc = "change_speed"
  /\ IF ChangeSpeedDerefsNull(cfr, port_tty)
     THEN /\ cpc' = "oops"
          /\ cfg' = NoCfg
          /\ UNCHANGED cfr
     ELSE /\ ChangeSpeedCall("set_termios", cfr)
          /\ cpc' = "idle"
          /\ cfr' = NoCfr
  /\ uev' = "set_termios"
  /\ UNCHANGED <<port_active, port_tty, rm, xmit_fifo, icount_tx, reschedule_work,
                 wakeup_timer, wakeup_work, upc, ufr, ulog, wakeups, ufin, ka_reads,
                 opens, uwrites>>

\* ft260_uart_shutdown 1476-1482: the keep-alive flag after the call
ShutdownFlag == FALSE

\* tty_port_close of the last user, with nobody inside the driver:
\* ft260_uart_shutdown 1476-1482, then the tty is detached from the port
Shutdown ==
  /\ UartFrame
  /\ acc' = <<>>
  /\ UNCHANGED accepted
  /\ port_active /\ upc = "idle" /\ cpc = "idle"
  /\ reschedule_work' = ShutdownFlag
  /\ port_active' = FALSE
  /\ port_tty' = NULL
  /\ cfg' = NoCfg
  /\ uev' = "shutdown"
  /\ UNCHANGED <<rm, xmit_fifo, icount_tx, wakeup_timer, wakeup_work, upc, ufr, ulog,
                 wakeups, ufin, cpc, cfr, ka_reads, opens, uwrites>>

\* ft260_uart_hangup 1147-1152: tty_port_hangup detaches the tty and shuts
\* the line down, whatever calls are inside the driver
Hangup ==
  /\ UartFrame
  /\ acc' = <<>>
  /\ UNCHANGED accepted
  /\ port_active
  /\ reschedule_work' = ShutdownFlag
  /\ port_active' = FALSE
  /\ port_tty' = NULL
  /\ cfg' = NoCfg
  /\ uev' = "hangup"
  /\ UNCHANGED <<rm, xmit_fifo, icount_tx, wakeup_timer, wakeup_work, upc, ufr, ulog,
                 wakeups, ufin, cpc, cfr, ka_reads, opens, uwrites>>

\* ------------------------------------------------------------ keep-alive
\* ft260_uart_start_wakeup 1447-1457: the timer expired
StartWakeup ==
  /\ UartFrame
  /\ acc' = <<>>
  /\ UNCHANGED accepted
  /\ wakeup_timer
  /\ IF reschedule_work
     THEN wakeup_work' = TRUE /\ wakeup_timer' = TRUE
     ELSE wakeup_timer' = FALSE /\ UNCHANGED wakeup_work
  /\ cfg' = NoCfg
  /\ uev' = "timer"
  /\ UNCHANGED <<port_active, port_tty, rm, xmit_fifo, icount_tx, reschedule_work,
                 upc, ufr, ulog, wakeups, ufin, cpc, cfr, ka_reads, opens, uwrites>>

\* ft260_uart_do_wakeup 1459-1474: the work item runs
DoWakeup ==
  /\ UartFrame
  /\ acc' = <<>>
  /\ UNCHANGED accepted
  /\ wakeup_work
  /\ wakeup_work' = FALSE
  /\ ka_reads' = IF reschedule_work THEN Min(ka_reads + 1, MaxKeepAlive) ELSE ka_reads
  /\ cfg' = NoCfg
  /\ uev' = "work"
  /\ UNCHANGED <<port_active, port_tty, rm, xmit_fifo, icount_tx, reschedule_work,
                 wakeup_timer, upc, ufr, ulog, wakeups, ufin, cpc, cfr, opens, uwrites>>

\* ---------------------------------------------------------------- removal
\* ft260_remove 1716-1718: cancel_work_sync(&dev->wakeup_work). (Removal with
\* a write or a configuration call inside the driver is not among the
\* behaviours.)
RemoveCancelWork ==
  /\ UartFrame
  /\ acc' = <<>>
  /\ UNCHANGED accepted
  /\ rm = "attached" /\ upc = "idle" /\ cpc = "idle"
  /\ opens > 0
  /\ wakeup_work' = FALSE
  /\ rm' = "removing"
  /\ cfg' = NoCfg
  /\ uev' = "remove"
  /\ UNCHANGED <<port_active, port_tty, xmit_fifo, icount_tx, reschedule_work,
                 wakeup_timer, upc, ufr, ulog, wakeups, ufin, cpc, cfr, ka_reads, opens,
                 uwrites>>

\* ft260_remove 1719-1721 with ft260_uart_port_remove 1094-1112: the timer
\* is deleted, the queue freed, the flag cleared and the line hung up
RemovePort ==
  /\ UartFrame
  /\ acc' = <<Access("xmit_fifo", "kfifo_free", TRUE)>>
  /\ UNCHANGED accepted
  /\ rm = "removing"
  /\ wakeup_timer' = FALSE
  /\ xmit_fifo' = <<>>
  /\ reschedule_work' = FALSE
  /\ port_active' = FALSE
  /\ port_tty' = NULL
  /\ rm' = "removed"
  /\ cfg' = NoCfg
  /\ uev' = "remove"
  /\ UNCHANGED <<icount_tx, wakeup_work, upc, ufr, ulog, wakeups, ufin, cpc, cfr,
                 ka_reads, opens, uwrites>>

\* the steps of a context in UART mode
NextUart ==
  \/ UartWrite
  \/ TransmitGet
  \/ TransmitChunk
  \/ TransmitWakeup
  \/ UartWriteReturn
  \/ Activate
  \/ Shutdown
  \/ Hangup
  \/ RemoveCancelWork
  \/ RemovePort

\* ======================================================= UART port list
\* UART_COUNT_MAX: the lines the tty driver is allocated with
UART_COUNT_MAX == 4

\* the most UART ports on the list at a time
MaxPorts == 5

\* a step on the list of UART ports: no transfer and no line is touched
PortFrame ==
  /\ workload = "ports"
  /\ UNCHANGED <<workload, pc, fr, lock, rep_flag, read_buf, read_idx, read_len, clock,
                 wait, buf, buf_len, oob, log, featget, fin, ev, status, dev_pending,
                 dev_chunk, strays, calls, dclock, host_be, port_active, port_tty,
                 rm, xmit_fifo, icount_tx, reschedule_work, wakeup_timer, wakeup_work,
                 upc, ufr, ulog, wakeups, ufin, cpc, cfr, cfg, uev, ka_reads, opens,
                 uwrites, accepted, acc>>

\* ft260_uart_add_port 1075-1080: walk the list from its head, counting
\* while the entry met has the index counted so far
AddPortIndex(list) ==
  CHOOSE n \in 0..Len(list) :
    /\ \A k \in 1..n : list[k].index = k - 1
    /\ n = Len(list) \/ list[n + 1].index # n

\* ft260_uart_add_port 1066-1087, called by ft260_uart_probe 1586 for a new
\* device: the queue is allocated, the index chosen, and the port put at
\* the head of the list (list_add). One probe runs at a time.
PortAdd ==
  /\ PortFrame
  /\ Len(ft260_uart_device_list) < MaxPorts
  /\ \A k \in DOMAIN ft260_uart_device_list : ft260_uart_device_list[k].tty
  /\ \E alloc \in BOOLEAN :
       IF alloc
       THEN LET index == AddPortIndex(ft260_uart_device_list)
            IN /\ ft260_uart_device_list' =
                    <<[index |-> index, tty |-> FALSE]>> \o ft260_uart_device_list
               /\ port_ev' = [op |-> "add", ok |-> TRUE, index |-> index]
       ELSE /\ UNCHANGED ft260_uart_device_list
            /\ port_ev' = [op |-> "add", ok |-> FALSE, index |-> 0]

\* ft260_uart_probe 1592-1625 after the port was added: the tty core
\* registers the line unless the index is one the tty driver does not have
\* or one it has registered already; when that or the configuration report
\* fails the port is taken off the list again (ft260_uart_port_remove)
PortRegister ==
  /\ PortFrame
  /\ \E k \in DOMAIN ft260_uart_device_list :
       LET list == ft260_uart_device_list
           p == list[k]
           free == /\ p.index < UART_COUNT_MAX
                   /\ \A j \in DOMAIN list : list[j].tty => list[j].index # p.index
       IN /\ ~p.tty
          /\ \E ok \in (IF free THEN BOOLEAN ELSE {FALSE}) :
               /\ ft260_uart_device_list' =
                    IF ok THEN [list EXCEPT ![k].tty = TRUE]
                    ELSE SubSeq(list, 1, k - 1) \o SubSeq(list, k + 1, Len(list))
               /\ port_ev' = [op |-> "register", ok |-> ok, index |-> p.index]

\* ft260_remove 1709-1722: the line is unregistered and
\* ft260_uart_port_remove 1094-1128 takes the port off the list (list_del)
PortRemove ==
  /\ PortFrame
  /\ \E k \in DOMAIN ft260_uart_device_list :
       LET list == ft260_uart_device_list
       IN /\ list[k].tty
          /\ ft260_uart_device_list' =
               SubSeq(list, 1, k - 1) \o SubSeq(list, k + 1, Len(list))
          /\ port_ev' = [op |-> "remove", ok |-> TRUE, index |-> list[k].index]

\* ft260_uart_port_get 1114-1127 with ft260_dev_by_index 1055-1064: the
\* first port from the head of the list that has the index, NULL when the
\* index is out of range or no port has it
PortGet ==
  /\ PortFrame
  /\ \E index \in 0..UART_COUNT_MAX :
       LET list == ft260_uart_device_list
           hits == {k \in DOMAIN list : list[k].index = index}
           port == IF index >= UART_COUNT_MAX \/ hits = {} THEN NULL
                   ELSE CHOOSE k \in hits : \A j \in hits : k <= j
       IN port_ev' = [op |-> "get", ok |-> port # NULL, index |-> index]
  /\ UNCHANGED ft260_uart_device_list

\* ----------------------------------------------------------------- spec
Next ==
  \/ \E c \in Callers : Lock(c)
  \/ \E c \in Callers : Power(c)
  \/ \E c \in Callers : Exit(c)
  \/ \E c \in Callers : WrChunk(c)
  \/ \E c \in Callers : SwSend(c)
  \/ \E c \in Callers : CsPoll(c)
  \/ \E c \in Callers : CsReset(c)
  \/ \E c \in Callers : RdTop(c)
  \/ \E c \in Callers : RdSetIdx(c)
  \/ \E c \in Callers : RdSetBuf(c)
  \/ \E c \in Callers : RdSetLen(c)
  \/ \E c \in Callers : RdSend(c)
  \/ \E c \in Callers : RdWaitDone(c)
  \/ \E c \in Callers : RdTimeout(c)
  \/ \E c \in Callers : RdClear(c)
  \/ \E c \in Callers : RdStatus(c)
  \/ \E c \in Callers : RdReset(c)
  \/ \E c \in Callers : RdExit(c)
  \/ DevFrame
  \/ Stray
  \/ UartWrite
  \/ TransmitGet
  \/ TransmitChunk
  \/ TransmitWakeup
  \/ UartWriteReturn
  \/ Activate
  \/ SetTermios
  \/ ChangeSpeed
  \/ Shutdown
  \/ Hangup
  \/ RemoveCancelWork
  \/ RemovePort
  \/ PortAdd
  \/ PortRegister
  \/ PortRemove
  \/ PortGet

Spec == Init /\ [][Next]_vars

\* UART devices that come and go
NextPorts ==
  \/ PortAdd
  \/ PortRegister
  \/ PortRemove
  \/ PortGet
InitPorts == Init /\ workload = "ports"
SpecPorts == InitPorts /\ [][NextPorts]_vars

\* a context in UART mode
InitUart == Init /\ workload = "uart"
SpecUart == InitUart /\ [][NextUart]_vars

\* a context in UART mode whose line settings are changed
InitUartCfg == Init /\ workload = "uart_cfg"
NextUartCfg ==
  \/ Activate
  \/ SetTermios
  \/ ChangeSpeed
  \/ Shutdown
  \/ Hangup
  \/ RemoveCancelWork
  \/ RemovePort
SpecUartCfg == InitUartCfg /\ [][NextUartCfg]_vars

\* the same with the timer callback and the work function among the steps
NextKeepAlive ==
  \/ NextUart
  \/ StartWakeup
  \/ DoWakeup
SpecKeepAlive == InitUart /\ [][NextKeepAlive]_vars

\* plain I2C writes only
InitWrite == Init /\ workload = "write"
NextWrite ==
  \/ \E c \in Callers : Lock(c)
  \/ \E c \in Callers : Power(c)
  \/ \E c \in Callers : Exit(c)
  \/ \E c \in Callers : WrChunk(c)
  \/ \E c \in Callers : CsPoll(c)
  \/ \E c \in Callers : CsReset(c)
  \/ Stray
SpecWrite == InitWrite /\ [][NextWrite]_vars

\* plain I2C reads only
InitRead == Init /\ workload = "read"
NextRead ==
  \/ \E c \in Callers : Lock(c)
  \/ \E c \in Callers : Power(c)
  \/ \E c \in Callers : Exit(c)
  \/ \E c \in Callers : RdTop(c)
  \/ \E c \in Callers : RdSetIdx(c)
  \/ \E c \in Callers : RdSetBuf(c)
  \/ \E c \in Callers : RdSetLen(c)
  \/ \E c \in Callers : RdSend(c)
  \/ \E c \in Callers : RdWaitDone(c)
  \/ \E c \in Callers : RdTimeout(c)
  \/ \E c \in Callers : RdClear(c)
  \/ \E c \in Callers : RdStatus(c)
  \/ \E c \in Callers : RdReset(c)
  \/ \E c \in Callers : RdExit(c)
  \/ DevFrame
  \/ Stray
SpecRead == InitRead /\ [][NextRead]_vars

\* combined write-then-read transfers only
InitComb == Init /\ workload = "combined"
NextComb ==
  \/ \E c \in Callers : Lock(c)
  \/ \E c \in Callers : Power(c)
  \/ \E c \in Callers : Exit(c)
  \/ \E c \in Callers : WrChunk(c)
  \/ \E c \in Callers : CsPoll(c)
  \/ \E c \in Callers : CsReset(c)
  \/ \E c \in Callers : RdTop(c)
  \/ \E c \in Callers : RdSetIdx(c)
  \/ \E c \in Callers : RdSetBuf(c)
  \/ \E c \in Callers : RdSetLen(c)
  \/ \E c \in Callers : RdSend(c)
  \/ \E c \in Callers : RdWaitDone(c)
  \/ \E c \in Callers : RdTimeout(c)
  \/ \E c \in Callers : RdClear(c)
  \/ \E c \in Callers : RdStatus(c)
  \/ \E c \in Callers : RdReset(c)
  \/ \E c \in Callers : RdExit(c)
  \/ DevFrame
  \/ Stray
SpecComb == InitComb /\ [][NextComb]_vars

\* SMBus transfers only
InitSmbus == Init /\ workload = "smbus"
NextSmbus ==
  \/ \E c \in Callers : Lock(c)
  \/ \E c \in Callers : Power(c)
  \/ \E c \in Callers : Exit(c)
  \/ \E c \in Callers : SwSend(c)
  \/ \E c \in Callers : CsPoll(c)
  \/ \E c \in Callers : CsReset(c)
  \/ \E c \in Callers : RdTop(c)
  \/ \E c \in Callers : RdSetIdx(c)
  \/ \E c \in Callers : RdSetBuf(c)
  \/ \E c \in Callers : RdSetLen(c)
  \/ \E c \in Callers : RdSend(c)
  \/ \E c \in Callers : RdWaitDone(c)
  \/ \E c \in Callers : RdTimeout(c)
  \/ \E c \in Callers : RdClear(c)
  \/ \E c \in Callers : RdStatus(c)
  \/ \E c \in Callers : RdReset(c)
  \/ \E c \in Callers : RdExit(c)
  \/ DevFrame
  \/ Stray
SpecSmbus == InitSmbus /\ [][NextSmbus]_vars


TypeOK ==
  /\ lock \in 0..NumCallers
  /\ read_buf \in {NULL} \cup 0..(MaxLen + SmbusBufLen)
  /\ read_idx \in 0..65535
  /\ read_len \in 0..65535
  /\ wait \in Nat
  /\ calls \in 0..MaxCalls

\* ----------------------------------------------------------- properties
\* the frame of the call in progress, else of the call that returned last
CallFrame ==
  IF \E c \in Callers : fr[c].op # "none"
  THEN fr[CHOOSE c \in Callers : fr[c].op # "none"]
  ELSE IF fin.c # 0 THEN fin.f ELSE NoFrame

\* the call that returned last was of kind op
Returned(op) == fin.c # 0 /\ fin.op = op

LogIdx(kind) == {i \in DOMAIN log : log[i].kind = kind}

Ceil(a, b) == (a + b - 1) \div b

HasBit(v, m) == BitAnd(v, m) # 0

\* C1: every I2C write of L >= 1 bytes asked with start+stop puts its k-th
\* output report at bytes [60(k-1), min(60k, L)) of the caller's buffer,
\* with start on the first report only, stop on the last only and no flag
\* in between; when all chunks were sent and polled successfully there are
\* exactly ceil(L/60) reports and their payloads concatenate to the buffer.
C1_WriteChunks ==
  LET f == CallFrame
      L == f.wlen
  IN f.op = "write" /\ L >= 1 =>
       /\ \A k \in DOMAIN log :
            IF log[k].kind = "wr"
            THEN /\ \A j \in 1..(k - 1) : log[j].kind = "wr" /\ log[j].ok
                 /\ 60 * (k - 1) < L
                 /\ log[k].length = Min(60, L - 60 * (k - 1))
                 /\ log[k].data = [j \in 1..log[k].length |-> DataByte(60 * (k - 1) + j - 1)]
                 /\ log[k].flag = (IF k = 1 THEN FT260_FLAG_START ELSE 0)
                                  + (IF 60 * k >= L THEN FT260_FLAG_STOP ELSE 0)
            ELSE k = Len(log)
       /\ Returned("write") /\ fin.ret >= 0 =>
            /\ fin.ret = 1
            /\ Len(log) = Ceil(L, 60)
            /\ \A k \in DOMAIN log : log[k].kind = "wr" /\ log[k].ok
            /\ \A i \in 1..L :
                 log[((i - 1) \div 60) + 1].data[((i - 1) % 60) + 1] = DataByte(i - 1)

\* a 121-byte write returned success after three reports
C1_Witness ==
  /\ Returned("write") /\ fin.ret = 1 /\ fin.f.wlen = 2 * FT260_WR_DATA_MAX + 1
  /\ Len(log) = 3

\* destination offset of the k-th read request when the earlier ones were full
RdOffset(k) == IF k = 1 THEN 0 ELSE 60 + 180 * (k - 2)

RECURSIVE CopiedBefore(_)
\* bytes copied into the caller's buffer by the first j copies
CopiedBefore(j) == IF j = 0 THEN 0 ELSE CopiedBefore(j - 1) + buf[j].n

\* the first j copies all came from the device's answers to requests already sent
AnswersUpTo(j) == \A i \in 1..j : buf[i].src > 0 /\ buf[i].at = "sent"
OnlyAnswers == AnswersUpTo(Len(buf))

\* C2: an I2C read of L >= 1 bytes asks for min(L, 60) bytes first and for
\* min(remaining, 180) bytes in each later request; request k is reassembled
\* at the offset that is the sum of the earlier lengths; start is on the
\* first request only and stop on the last only; on success the lengths sum
\* to L and the device's answers fill the buffer from 0 to L without gaps.
C2_ReadChunks ==
  LET f == CallFrame
      L == f.rlen
  IN f.op = "read" /\ L >= 1 =>
       /\ \A k \in DOMAIN log :
            IF log[k].kind = "rd"
            THEN /\ \A j \in 1..(k - 1) : log[j].kind = "rd" /\ log[j].ok
                 /\ RdOffset(k) < L
                 /\ log[k].length = Min(IF k = 1 THEN 60 ELSE 180, L - RdOffset(k))
                 /\ log[k].base = RdOffset(k)
                 /\ log[k].flag = (IF k = 1 THEN FT260_FLAG_START ELSE 0)
                                  + (IF RdOffset(k) + log[k].length = L
                                     THEN FT260_FLAG_STOP ELSE 0)
            ELSE k = Len(log)
       /\ \A j \in DOMAIN buf :
            AnswersUpTo(j) =>
              /\ buf[j].src \in DOMAIN log /\ log[buf[j].src].kind = "rd"
              /\ buf[j].lo = CopiedBefore(j - 1)
              /\ buf[j].lo >= log[buf[j].src].base
              /\ buf[j].lo + buf[j].n <= log[buf[j].src].base + log[buf[j].src].length
       /\ Returned("read") /\ fin.ret >= 0 =>
            /\ fin.ret = 1
            /\ \A k \in DOMAIN log : log[k].kind = "rd" /\ log[k].ok
            /\ RdOffset(Len(log)) + log[Len(log)].length = L
            /\ OnlyAnswers => CopiedBefore(Len(buf)) = L

\* a 241-byte read returned success after three requests and five answers
C2_Witness ==
  /\ Returned("read") /\ fin.ret = 1
  /\ fin.f.rlen = FirstRdDataMax + FT260_RD_DATA_MAX + 1
  /\ Len(log) = 3 /\ Len(buf) = 5 /\ OnlyAnswers

\* C3: at most one transfer is inside the driver; the caller inside holds
\* the lock from before its first report to after its last, so every report
\* of a call is sent by the lock's owner and no other caller's report comes
\* between; when no call is inside (after success, failed power hint,
\* failed chunk or unsupported size) the lock is free.
C3_OneTransaction ==
  /\ \A c \in Callers : pc[c] # "idle" => lock = c
  /\ lock # 0 => pc[lock] # "idle"
  /\ \A i \in DOMAIN log : log[i].by = log[i].owner /\ log[i].by = log[1].by
  /\ fin.c # 0 => lock = 0

\* caller 1 is in the middle of an SMBus transfer, one report out, while
\* caller 2 could start a call of its own
C3_Witness ==
  /\ workload = "smbus" /\ lock = 1 /\ Len(log) >= 1 /\ pc[1] = "rd_wait"
  /\ pc[2] = "idle" /\ calls < MaxCalls

\* a combined call with a write message of 3 or more bytes
LongComb(f) == f.op = "combined" /\ f.wlen >= 3

\* C4 (as the claim states it): a combined write-then-read whose write
\* message has 3 or more bytes returns "unsupported" and nothing was sent.
C4_AsStated ==
  Returned("combined") /\ fin.f.wlen >= 3 =>
    fin.ret = EOPNOTSUPP /\ log = <<>> /\ featget = 0

\* C4 (amended): a combined write-then-read whose write message has 3 or
\* more bytes is rejected, with "unsupported" when the power hint succeeded
\* and with the power hint's own error when it failed; no output report, no
\* status read and no reset request is sent for the call, and no step taken
\* while the call is inside the driver changes the read descriptor.
C4_LongWriteRejected ==
  /\ [](LongComb(CallFrame) => log = <<>> /\ featget = 0)
  /\ [](Returned("combined") /\ fin.f.wlen >= 3 =>
          fin.ret = IF fin.power THEN EOPNOTSUPP ELSE ENODEV)
  /\ [][(\E c \in Callers : LongComb(fr[c])) =>
          UNCHANGED <<read_buf, read_idx, read_len>>]_vars

\* a 3-byte write phase came back as unsupported after a good power hint
C4_Witness ==
  /\ Returned("combined") /\ fin.f.wlen = CombWrMax + 1 /\ fin.power
  /\ fin.ret = EOPNOTSUPP /\ log = <<>>

\* C5: in a combined transfer with a 1- or 2-byte write phase the first
\* report is the one write report, flagged start and nothing else; read
\* requests follow only when that write was sent and polled successfully;
\* the first read request carries start-repeated, the later ones no start;
\* stop is carried by the final read request and by no report before it.
C5_CombinedSequence ==
  LET f == CallFrame
  IN f.op = "combined" /\ f.wlen \in {1, 2} =>
       /\ Len(log) >= 1 =>
            log[1].kind = "wr" /\ log[1].flag = FT260_FLAG_START /\ log[1].length = f.wlen
       /\ \A k \in DOMAIN log :
            /\ k >= 2 => log[k].kind # "wr"
            /\ log[k].kind = "rd" =>
                 /\ \A j \in 1..(k - 1) : log[j].kind # "reset" /\ log[j].ok
                 /\ log[k].flag \in
                      (IF k = 2 THEN {FT260_FLAG_START_REPEATED, FT260_FLAG_START_STOP_REPEATED}
                       ELSE {FT260_FLAG_NONE, FT260_FLAG_STOP})
                 /\ HasBit(log[k].flag, FT260_FLAG_STOP)
                      <=> log[k].base + log[k].length = f.rlen
                 /\ HasBit(log[k].flag, FT260_FLAG_STOP) => k = Len(log) \/ log[k + 1].kind = "reset"
       /\ Returned("combined") /\ fin.ret >= 0 =>
            /\ fin.ret = 2
            /\ log[Len(log)].kind = "rd" /\ HasBit(log[Len(log)].flag, FT260_FLAG_STOP)

\* a 2-byte write then a 61-byte read, done in three reports
C5_Witness ==
  /\ Returned("combined") /\ fin.ret = 2 /\ fin.f.wlen = CombWrMax
  /\ fin.f.rlen = FirstRdDataMax + 1 /\ Len(log) = 3

\* C6 (as the claim states it): an I2C-range frame that arrives while no
\* read is executing is rejected with an error, copies nothing and signals
\* no completion; and every byte in the destination buffer of a read comes
\* from a frame delivered after that read's request was sent.
C6_AsStated ==
  /\ ev.cls = "i2c" /\ ev.at = "idle" =>
       ev.ret = RawErr /\ ev.copied = 0 /\ ~ev.completed
  /\ \A j \in DOMAIN buf : buf[j].n > 0 => buf[j].at = "sent"

\* C7: an inbound frame whose length field is above 180 is rejected with an
\* error whatever its report ID and whatever the driver is doing: nothing is
\* copied, nothing reaches the UART sink, no completion is signalled.
C7_LongFramesRejected ==
  ev.cls # "none" /\ ev.length > 180 =>
    ev.ret < 0 /\ ev.copied = 0 /\ ~ev.completed /\ ~ev.uart

\* a 181-byte I2C-range frame was refused while a read was waiting for data
C7_Witness ==
  /\ ev.cls = "i2c" /\ ev.length > FT260_RD_DATA_MAX /\ ev.at = "sent" /\ ev.had_buf
  /\ ev.ret = RawErr

ResetPcs == {"cs_reset", "rd_reset"}

\* the status answer st has the error bit set
ErrorSeen(st) == st.ret = 0 /\ HasBit(st.bus_status, FT260_I2C_STATUS_ERROR)

\* the status answer st has a busy bit set that the driver looks at
BusyChecked(st) ==
  st.ret = 0 /\ HasBit(st.bus_status, BitOr(FT260_I2C_STATUS_CTRL_BUSY, st.mask))

\* the status answer st has a busy bit set
BusySeen(st) ==
  st.ret = 0 /\ HasBit(st.bus_status, FT260_I2C_STATUS_CTRL_BUSY + FT260_I2C_STATUS_BUS_BUSY)

\* C8 (as the claim states it): whenever the last status answer after a
\* chunk has the error bit set or still shows the bus busy, the call is on
\* its way out with an I/O error through one reset.
C8_AsStated ==
  status.by # 0 /\ (ErrorSeen(status) \/ BusySeen(status)) =>
    pc[status.by] \in ResetPcs /\ fr[status.by].ret = EIO

\* C8 (amended): whenever the last status answer after a write or read chunk
\* has the error bit set, or still has a busy bit the driver checks for that
\* chunk (controller busy always; bus busy except after a write chunk
\* flagged start only and after a read request without stop), the call
\* goes to the reset with an I/O error; a call sends at most one reset
\* request, as its last report, whether or not that request succeeds, and
\* then returns an error; a call that returns the I/O error sent exactly one.
C8_BusFailure ==
  /\ status.by # 0 /\ (ErrorSeen(status) \/ BusyChecked(status)) =>
       pc[status.by] \in ResetPcs /\ fr[status.by].ret = EIO
  /\ \A c \in Callers : pc[c] \in ResetPcs => LogIdx("reset") = {} /\ fr[c].ret < 0
  /\ Cardinality(LogIdx("reset")) <= 1
  /\ LogIdx("reset") # {} =>
       /\ log[Len(log)].kind = "reset"
       /\ \A c \in Callers :
            fr[c].op # "none" => pc[c] \in {"rd_exit", "exit"} /\ fr[c].ret < 0
       /\ fin.c # 0 => fin.ret < 0
  /\ fin.c # 0 /\ fin.ret = EIO => Cardinality(LogIdx("reset")) = 1

\* a read chunk's status showed a bus error, the reset request failed too,
\* and the call returned the I/O error
C8_Witness ==
  /\ Returned("combined") /\ fin.ret = EIO /\ Len(log) >= 2
  /\ log[Len(log)].kind = "reset" /\ ~log[Len(log)].ok
  /\ log[Len(log) - 1].kind = "rd" /\ log[Len(log) - 1].ok

\* C9: a read chunk that times out sends one reset request and nothing
\* after it, returns the timeout error and leaves the read descriptor
\* cleared, so that an I2C frame arriving later is rejected.
C9_ReadTimeout ==
  /\ \A c \in Callers :
       fr[c].op # "none" /\ fr[c].ret = ETIMEDOUT =>
         /\ pc[c] \in {"rd_reset", "rd_exit", "exit"}
         /\ log[Len(log)].kind = (IF pc[c] = "rd_reset" THEN "rd" ELSE "reset")
         /\ pc[c] = "exit" => read_buf = NULL
  /\ fin.c # 0 /\ fin.ret = ETIMEDOUT =>
       /\ Len(log) >= 2
       /\ LogIdx("reset") = {Len(log)}
       /\ log[Len(log) - 1].kind = "rd" /\ log[Len(log) - 1].ok
       /\ read_buf = NULL
       /\ ev.cls = "i2c" => ev.ret = RawErr /\ ev.copied = 0 /\ ~ev.completed

\* a frame came in after a read had returned the timeout, and was refused
C9_Witness ==
  /\ Returned("read") /\ fin.ret = ETIMEDOUT
  /\ ev.cls = "i2c" /\ ev.length = 1 /\ ev.ret = RawErr

\* the read requests handed to the transport by the current call
RdSent == Cardinality(LogIdx("rd"))

\* ft260_raw_event signalled the completion while the read was at chunk k
CompletionFired(k) == \E j \in DOMAIN buf : buf[j].chunk = k /\ buf[j].done

\* the number of chunks a read of L bytes is split into
RdChunks(L) == IF L <= 60 THEN 1 ELSE 1 + Ceil(L - 60, 180)

\* C11: a read hands one read request per chunk to the transport: before the
\* request of a chunk is sent there are as many requests as finished chunks,
\* afterwards one more; the request of chunk k+1 is sent only after the
\* completion of chunk k was signalled and its status read succeeded; a read
\* of L >= 1 bytes returns success only after one request, one signalled
\* completion and one successful status read for each of its chunks.
C11_OneRequestPerChunk ==
  /\ \A c \in Callers :
       pc[c] \in ReadPcs /\ fr[c].op = "read" =>
         /\ RdSent = (IF pc[c] \in {"rd_set_idx", "rd_set_buf", "rd_set_len", "rd_send"}
                      THEN fr[c].chunk - 1 ELSE fr[c].chunk)
         /\ \A k \in 1..(RdSent - 1) : CompletionFired(k) /\ log[k].ok
         /\ featget >= RdSent - 1
         /\ pc[c] \in {"rd_clear", "rd_status"} => CompletionFired(fr[c].chunk)
  /\ Returned("read") /\ fin.ret >= 0 /\ fin.f.rlen >= 1 =>
       /\ RdSent = RdChunks(fin.f.rlen) /\ Len(log) = RdSent
       /\ \A k \in 1..RdSent : CompletionFired(k) /\ log[k].ok
       /\ featget = RdSent

\* a 130-byte read returned success after two requests, for 60 and 70 bytes,
\* and two completions
C11_Witness ==
  /\ Returned("read") /\ fin.ret = 1 /\ fin.f.rlen = 130
  /\ Len(log) = 2 /\ log[1].length = 60 /\ log[2].length = 70
  /\ CompletionFired(1) /\ CompletionFired(2) /\ featget = 2

RECURSIVE ChunkBytes(_, _)
\* bytes ft260_raw_event copied, among the first j copies, while the read
\* was at chunk k
ChunkBytes(j, k) ==
  IF j = 0 THEN 0
  ELSE ChunkBytes(j - 1, k) + (IF buf[j].chunk = k THEN buf[j].n ELSE 0)

StatusAnswer(st, k) ==
  IF k <= st.busy_run THEN [ret |-> 0, bus_status |-> st.busy_byte] ELSE st.answer

\* the driver takes the status answer a as busy when it checks with mask m
AnswersBusy(a, m) ==
  a.ret = 0 /\ HasBit(a.bus_status, BitOr(FT260_I2C_STATUS_CTRL_BUSY, m))

RunCat(a, b) ==
  IF a = <<>> THEN b
  ELSE IF b = <<>> THEN a
  ELSE LET la == a[Len(a)]
           hb == Head(b)
       IN IF la.w = hb.w /\ la.lo + la.n = hb.lo
          THEN SubSeq(a, 1, Len(a) - 1) \o <<[la EXCEPT !.n = la.n + hb.n]>> \o Tail(b)
          ELSE a \o b

RECURSIVE SentBytes(_)
\* the payloads of the first j UART reports of the current write, joined
SentBytes(j) == IF j = 0 THEN <<>> ELSE RunCat(SentBytes(j - 1), ulog[j].data)

\* the n bytes of the buffer passed to write w
WriteBytes(w, n) == IF n = 0 THEN <<>> ELSE <<[w |-> w, lo |-> 0, n |-> n]>>

\* C12 (as the claim states it): a UART write of N bytes that fit into the
\* free space of the queue, all of whose reports the transport accepted,
\* returns N after exactly ceil(N/60) output reports, each carrying 1..60
\* bytes and a length field equal to its payload size, whose payloads joined
\* in send order are the N bytes of the caller, whatever writes came before
\* (writes whose drain failed included).
C12_AsStated ==
  ufin.id # 0 /\ ufin.count <= FIFO_SIZE - ufin.before /\ ufin.txret = 0 =>
    /\ ufin.ret = ufin.count
    /\ Len(ulog) = Ceil(ufin.count, 60)
    /\ \A k \in DOMAIN ulog :
         /\ ulog[k].ok
         /\ ulog[k].length \in 1..60
         /\ ulog[k].length = KfifoLen(ulog[k].data)
    /\ SentBytes(Len(ulog)) = WriteBytes(ufin.id, ufin.count)

\* C13 (as the claim states it): the value returned by ft260_uart_write is
\* the number of bytes that call put into the transmit queue.
C13_AsStated ==
  ufin.id # 0 => ufin.ret = ufin.len

\* the drain of the write that returned last took the occupancy of the queue
\* from above the watermark to the watermark or below
CrossedWatermark ==
  ufin.drain > TTY_WAKEUP_WATERMARK /\ ufin.left <= TTY_WAKEUP_WATERMARK

\* C14 (as the claim states it): a UART write issues the writer wakeup once
\* when its drain took the occupancy of the queue from above FIFO/2 to FIFO/2
\* or below, and not at all otherwise.
C14_AsStated ==
  ufin.id # 0 => wakeups = (IF CrossedWatermark THEN 1 ELSE 0)

\* C14 (amended): a UART write issues the writer wakeup exactly once when
\* its drain sent every queued byte (the queue is then empty, the occupancy
\* may or may not have been above FIFO/2 before), and not at all when the
\* drain found no line or nothing to send or when a report could not be
\* sent, also when that drain had taken the occupancy across FIFO/2; the
\* wakeup is the last thing the drain does.
C14_WakeupAfterDrain ==
  /\ wakeups \in {0, 1}
  /\ upc \in {"tx_get", "tx_chunk", "tx_wake"} => wakeups = 0
  /\ upc = "uw_ret" => wakeups = (IF ufr.ret = 0 THEN 1 ELSE 0)
  /\ ufin.id # 0 =>
       /\ wakeups = (IF ufin.txret = 0 THEN 1 ELSE 0)
       /\ ufin.txret = 0 =>
            /\ ufin.left = 0 /\ ufin.drain >= 1
            /\ \A k \in DOMAIN ulog : ulog[k].ok
       /\ ufin.txret # 0 =>
            \/ ufin.drain = 0
            \/ ulog = <<>>
            \/ ~ulog[Len(ulog)].ok

\* a write of 129 bytes into the empty queue was drained in three reports
\* and woke the writers once
C14_Witness ==
  /\ ufin.id # 0 /\ ufin.count = TTY_WAKEUP_WATERMARK + 1 /\ ufin.before = 0
  /\ ufin.txret = 0 /\ Len(ulog) = 3 /\ wakeups = 1 /\ CrossedWatermark

C16_AsStated ==
  port_active => wakeup_timer

\* C17 (as the claim states it): every configuration call ends, having set
\* one configuration report whose baud field is, in little-endian order, the
\* requested rate when that lies in [1200, 12000000] and 9600 otherwise.
C17_AsStated ==
  /\ cpc # "oops"
  /\ cfg.by # "none" =>
       /\ cfg.sets = 1
       /\ cfg.req.baudrate =
            Le32Bytes(IF cfg.termios.baud >= 1200 /\ cfg.termios.baud <= 12000000
                      THEN cfg.termios.baud ELSE 9600)

\* the status answer a has the bus-busy bit set
BusBusyIn(a) == a.ret = 0 /\ HasBit(a.bus_status, FT260_I2C_STATUS_BUS_BUSY)

\* the last report in the log is a write chunk that was sent
LastChunkSent == Len(log) > 0 /\ log[Len(log)].kind = "wr" /\ log[Len(log)].ok

\* C20 (as the claim states it): after a write chunk sent without the stop
\* condition a status answer with only the bus-busy bit set counts as
\* success, so the poll ends with it and the call goes on.
C20_AsStated ==
  status.by # 0 /\ status.path = "write" /\ LastChunkSent
  /\ ~HasBit(log[Len(log)].flag, FT260_FLAG_STOP)
  /\ status.ret = 0 /\ status.bus_status = FT260_I2C_STATUS_BUS_BUSY =>
    pc[status.by] # "cs_reset" /\ fr[status.by].ret >= 0

\* C20 (amended): the poll after a write chunk leaves the bus-busy bit out
\* of the check exactly when the chunk's flag field is start and nothing
\* else (the first chunk of a write that goes on, the write phase of a
\* combined transfer); then an answer with only bus-busy set ends the poll
\* with success. After every other chunk (a chunk with the stop condition,
\* but also a middle chunk with no condition at all) an answer with
\* bus-busy set is retried, and when it is the 100th the call fails.
C20_BusBusyMask ==
  status.by # 0 /\ status.path = "write" =>
    /\ LastChunkSent
    /\ status.mask = (IF log[Len(log)].flag = FT260_FLAG_START
                      THEN 0 ELSE FT260_I2C_STATUS_BUS_BUSY)
    /\ status.mask = 0 /\ status.ret = 0
       /\ status.bus_status = FT260_I2C_STATUS_BUS_BUSY =>
         /\ status.polls = 1 + (IF status.busy_byte = FT260_I2C_STATUS_BUS_BUSY
                                THEN 0 ELSE Min(status.busy_run, PollTries - 1))
         /\ pc[status.by] # "cs_reset" /\ fr[status.by].ret >= 0
    /\ status.mask # 0 =>
         \A k \in 1..status.polls :
           BusBusyIn(StatusAnswer(status, k)) =>
             \/ k < status.polls
             \/ k = PollTries /\ pc[status.by] = "cs_reset" /\ fr[status.by].ret = EIO

\* the first chunk of a 61-byte write, flagged start only, was answered
\* with bus-busy alone: the poll ended at once and the second chunk is next
C20_Witness ==
  /\ status.by # 0 /\ status.path = "write" /\ status.mask = 0
  /\ status.ret = 0 /\ status.bus_status = FT260_I2C_STATUS_BUS_BUSY
  /\ status.polls = 1 /\ pc[status.by] = "wr_chunk"
  /\ Len(log) = 1 /\ log[1].flag = FT260_FLAG_START

\* a report of kind k that the transport refused is in the log
SendFailedOf(k) == \E i \in DOMAIN log : log[i].kind = k /\ ~log[i].ok

InFlight == \E c \in Callers : pc[c] = "rd_wait"

\* the step delivers an inbound frame with a report ID of the I2C range
I2cFrameStep == ev' # NoEv /\ ev'.cls = "i2c"

\* the step treats the frame as the callback is described: rejected without
\* a change when it is longer than what is still expected, else copied at
\* the offset reached, the offset moved on by its length and the completion
\* fired exactly when the offset has reached the length
FrameHandled ==
  IF ev'.length > read_len - read_idx
  THEN /\ ev'.ret = RawErr
       /\ UNCHANGED <<buf, read_idx, read_len, read_buf, wait>>
  ELSE /\ ev'.ret = 0
       /\ Len(buf') = Len(buf) + 1
       /\ buf'[Len(buf')].lo = read_buf + read_idx
       /\ buf'[Len(buf')].n = ev'.length
       /\ read_idx' = read_idx + ev'.length
       /\ UNCHANGED <<read_len, read_buf>>
       /\ wait' = (IF read_idx' = read_len THEN wait + 1 ELSE wait)

\* C21 (as the claim states it): an I2C-range frame delivered while a read
\* is in flight is rejected without a change when its length exceeds the
\* bytes still expected, and is otherwise copied at the received offset,
\* which grows by its length, the completion firing exactly when the
\* received count equals the requested chunk length; the received count is
\* never above the requested chunk length.
C21_AsStated ==
  [][InFlight /\ I2cFrameStep =>
       /\ FrameHandled
       /\ read_idx <= read_len
       /\ read_idx' <= read_len']_vars

\* ------------------------------------------------------------ SMBus reads
\* the SMBus transfers that read data after a command byte
SmbusDataRead(f) ==
  /\ f.op = "smbus" /\ f.rw = "R"
  /\ f.size \in {"BYTE_DATA", "WORD_DATA", "BLOCK_DATA", "I2C_BLOCK_DATA"}

\* the size class is none the driver handles
SmbusUnsupported(f) == f.op = "smbus" /\ f.size \notin (SmbusSizes \ {"PROC_CALL"})

\* the first report of the call is the command write: the command byte
\* alone, start condition only
CmdWriteFirst(f) ==
  /\ log[1].kind = "wr" /\ log[1].length = 1 /\ log[1].data = <<f.cmd>>
  /\ log[1].flag = FT260_FLAG_START /\ log[1].address = f.addr

\* the command write of the call failed: it could not be sent, or its status
\* poll ended in a reset
CmdWriteFailed ==
  Len(log) >= 1 /\ (~log[1].ok \/ (Len(log) >= 2 /\ log[2].kind = "reset"))

\* the read requests of the call begin with the repeated start and end with
\* the stop condition
RdFirstLastFlags ==
  LET rds == LogIdx("rd")
  IN rds # {} =>
       LET lo == CHOOSE i \in rds : \A j \in rds : i <= j
           hi == CHOOSE i \in rds : \A j \in rds : i >= j
       IN /\ BitAnd(log[lo].flag, FT260_FLAG_START_REPEATED) = FT260_FLAG_START_REPEATED
          /\ HasBit(log[hi].flag, FT260_FLAG_STOP)

\* what the claim says of a call that has returned
SmbusReadSequence(f) ==
  /\ SmbusDataRead(f) =>
       /\ Len(log) >= 1 /\ CmdWriteFirst(f)
       /\ IF CmdWriteFailed
          THEN LogIdx("rd") = {} /\ fin.ret < 0
          ELSE /\ Len(log) >= 2 /\ log[2].kind = "rd" /\ log[2].length = SmbusDataLen(f)
               /\ LogIdx("wr") = {1}
               /\ RdFirstLastFlags
  /\ SmbusUnsupported(f) => log = <<>> /\ fin.ret = EOPNOTSUPP

\* C22 (as the claim states it): an SMBus byte-data, word-data, block or
\* I2C-block read first sends one write report with the command byte alone
\* and the start condition only, then the data read, whose first request
\* carries the repeated start and whose last carries stop; when the command
\* write fails no read request is sent and the error is returned; a size
\* class that is not supported returns EOPNOTSUPP with no report sent.
C22_AsStated ==
  Returned("smbus") => SmbusReadSequence(fin.f)

\* C22 (amended): the same for every call whose power hint succeeded; a
\* call whose power hint failed returns that error with no report sent,
\* whatever its size class. While the call runs, a read request is only ever
\* sent after the command write and its status poll succeeded.
C22_SmbusRead ==
  /\ Returned("smbus") =>
       IF fin.power THEN SmbusReadSequence(fin.f)
       ELSE log = <<>> /\ fin.ret < 0 /\ fin.ret # EOPNOTSUPP
  /\ \A c \in Callers :
       SmbusDataRead(fr[c]) /\ LogIdx("rd") # {} =>
         /\ CmdWriteFirst(fr[c]) /\ log[1].ok /\ log[2].kind = "rd"
         /\ RdFirstLastFlags

\* a word-data read returned success after the command write and one read
\* request with repeated start and stop
C22_Witness ==
  /\ Returned("smbus") /\ fin.ret = 0 /\ SmbusDataRead(fin.f) /\ fin.f.size = "WORD_DATA"
  /\ Len(log) = 2 /\ log[1].ok /\ log[2].ok
  /\ log[2].flag = FT260_FLAG_START_STOP_REPEATED /\ log[2].length = 2

\* ------------------------------------------------------- line settings
\* termios t with the other hardware-flow-control setting
OtherFlowControl(t) == [t EXCEPT !.crtscts = ~t.crtscts]

\* C23: the configuration report sent for a termios is the report sent for
\* the same termios with the other hardware-flow-control setting: its
\* flow-control field is always "no flow control" and its break field "no
\* break".
C23_FlowControlFixed ==
  cfg.by # "none" =>
    /\ cfg.req.flow_ctrl = FT260_CFG_FLOW_CTRL_NONE
    /\ cfg.req.breaking = FT260_CFG_BREAKING_NO
    /\ cfg.req = UartConfigReq(OtherFlowControl(cfg.termios))

\* the line was configured with RTS/CTS flow control asked for
C23_Witness ==
  /\ cfg.by = "set_termios" /\ cfg.termios.crtscts
  /\ cfg.sets = 1 /\ cfg.req.flow_ctrl = FT260_CFG_FLOW_CTRL_NONE

\* ---------------------------------------------------------- transfer time
\* the write report sent last is being polled for by caller c
Polling(c) == pc[c] = "cs_poll" /\ Len(log) > 0 /\ log[Len(log)].kind = "wr"

\* C24 (as the claim states it): after every I2C write chunk that was sent
\* the expected transfer time is (data bytes of the chunk) * 9000 / clock,
\* and the engine has slept before the first poll exactly when that exceeds
\* 2000 microseconds, for that time less 1500.
C24_AsStated ==
  \A c \in Callers :
    /\ pc[c] # "oops"
    /\ Polling(c) =>
         /\ clock > 0
         /\ LET t == (log[Len(log)].length * 9000) \div clock
            IN /\ fr[c].usec = t
               /\ fr[c].sleep = (IF t > 2000 THEN t - 1500 ELSE 0)

\* ------------------------------------------------------------- queue lock
\* C25 (as the claim states it): every access a UART step makes to the
\* transmit queue, and every update it makes of the tx counter, is made with
\* port->write_lock held, and no UART step takes the I2C transaction lock.
C25_AsStated ==
  workload \in UartModes =>
    /\ \A i \in DOMAIN acc : acc[i].locked
    /\ lock = 0

\* ------------------------------------------------------ zero-length read
\* C26 (as the claim states it): a read request is sent only while the
\* remaining length is greater than 0, so every read request in the log asks
\* for at least one byte, no caller waits for the completion of a chunk of
\* length 0, and no chunk of length 0 ends in the 5 s timeout.
C26_AsStated ==
  /\ \A i \in LogIdx("rd") : log[i].length > 0
  /\ \A c \in Callers :
       pc[c] \in {"rd_wait", "rd_reset"} /\ fr[c].fn = "read" => fr[c].rd_len > 0

\* ------------------------------------------- callback against the reader
\* the chunk length that ft260_i2c_read is asking for at the moment
RequestedChunk(c) == fr[c].rd_len

\* C28 (as the claim states it): however ft260_raw_event interleaves with
\* the three stores of ft260_i2c_read, the bytes the callback has copied
\* for a chunk never exceed the length of the chunk that is being
\* requested, no copy goes past the end of the caller's buffer, and the
\* received count is at most the requested length in every state.
C28_AsStated ==
  /\ read_idx <= read_len
  /\ ~oob
  /\ \A c \in Callers :
       pc[c] \in ReadPcs /\ fr[c].fn = "read" /\ read_buf # NULL
         => read_idx <= RequestedChunk(c)

\* --------------------------------------------------- byte conservation
\* C29 (as the claim states it): while the queue has not been reset by a
\* second open or freed by the removal of the port, every byte that ft260_uart_write accepted is either still
\* in the transmit queue or was carried by a successfully sent report, the
\* tx counter being the number of the bytes so carried: the accepted bytes
\* are the queued bytes plus the counted ones.
C29_AsStated ==
  workload = "uart" /\ opens <= 1 /\ rm # "removed" =>
    accepted = KfifoLen(xmit_fifo) + icount_tx

\* ------------------------------------------------------------ termination
\* a step of a thread that is inside ft260_i2c_xfer / ft260_smbus_xfer: the
\* scheduler keeps running it, every transport call it makes returns, and
\* wait_for_completion_timeout returns after 5 s at the latest
CallerStep ==
  \E c \in Callers :
    \/ Power(c) \/ Exit(c)
    \/ WrChunk(c) \/ SwSend(c) \/ CsPoll(c) \/ CsReset(c)
    \/ RdTop(c) \/ RdSetIdx(c) \/ RdSetBuf(c) \/ RdSetLen(c) \/ RdSend(c)
    \/ RdWaitDone(c) \/ RdTimeout(c) \/ RdClear(c) \/ RdStatus(c)
    \/ RdReset(c) \/ RdExit(c)

\* plain I2C writes whose thread is never starved
SpecWriteFair == SpecWrite /\ WF_vars(CallerStep)

\* C27 (as the claim states it): every transfer call that was entered
\* eventually returns to its caller.
C27_AsStated ==
  \A c \in Callers : (pc[c] # "idle") ~> (pc[c] = "idle")

\* ------------------------------------------------------- UART port index
\* C30 (as the claim states it): the ports on the list have pairwise
\* distinct indices, every one of them below UART_COUNT_MAX, so that at
\* most one port has the index a lookup asks for.
C30_AsStated ==
  LET list == ft260_uart_device_list
  IN /\ \A j, k \in DOMAIN list : j # k => list[j].index # list[k].index
     /\ \A k \in DOMAIN list : list[k].index < UART_COUNT_MAX

\* ------------------------------------------------------- clock as divisor
\* caller c has just divided by dev->clock (470): it is about to poll, or
\* the division has trapped
Divided(c) == pc[c] \in {"cs_poll", "oops"}

\* C31 (as the claim states it): whenever the write path has divided by
\* the cached clock, the cached clock is not zero.
C31_AsStated == \A c \in Callers : Divided(c) => clock # 0

\* ------------------------------------------------------- write report ID
\* C32 (as the claim states it): every I2C write report that the transport
\* has sent has a report ID within FT260_I2C_REPORT_MIN ..
\* FT260_I2C_REPORT_MAX, and it is the ID of its payload length, the value
\* of its length field.
C32_AsStated ==
  \A i \in LogIdx("wr") :
    log[i].ok =>
      /\ log[i].report \in FT260_I2C_REPORT_MIN..FT260_I2C_REPORT_MAX
      /\ log[i].report = FT260_I2C_DATA_REPORT_ID(log[i].length)

\* --------------------------------------------------- size of the report
\* the frame delivered last was accepted: its payload was copied into the
\* read buffer or handed to ft260_uart_receive_chars
Accepted ==
  /\ ev # NoEv
  /\ \/ ev.cls = "i2c" /\ ev.ret = 0
     \/ ev.uart

\* C33 (as the claim states it): the length field of every accepted frame
\* is at most the size of the delivered report less its 2-byte header.
C33_AsStated == Accepted => ev.length <= ev.size - InputHeaderLen

\* ------------------------------------------------------ frames and modes
\* C34 (as the claim states it): a frame in the UART range delivered to a
\* context in I2C mode is not handed to the UART receive path and adds
\* nothing to the rx count, and a frame in the I2C range delivered to a
\* context in UART mode writes no read buffer and fires no completion.
C34_AsStated ==
  /\ ev # NoEv /\ ev.cls = "uart" /\ ~ft260_is_serial => ~ev.uart
  /\ ev # NoEv /\ ev.cls = "i2c" /\ ft260_is_serial =>
       ev.copied = 0 /\ ~ev.completed

====
